---- MODULE Spec2Model ----
(***************************************************************************)
(* Longitudinal planner (selfdrive/controls/lib/planner.py) and the        *)
(* longitudinal MPC wrapper (selfdrive/controls/lib/long_mpc.py).          *)
(*                                                                         *)
(* Numbers.  The program computes in floating point; the model computes in *)
(* fixed point with floor division:                                        *)
(*   distances, speeds, accelerations : 1e-4 m, m/s, m/s^2                 *)
(*   time gaps (TR) inside a lookup   : 1e-5 s   (rounded TR: 1e-3 s)      *)
(*   cost weights                     : 1e-5                               *)
(* A float NaN is the value NaN below; arithmetic and comparisons on it go *)
(* through the F* and Py* operators, which follow IEEE/Python: arithmetic  *)
(* with a NaN is a NaN, every ordered comparison with a NaN is false.      *)
(*                                                                         *)
(* planner.py is Python 2 (it indexes the result of map()), so an integer  *)
(* literal divided by an integer literal is a floor division.              *)
(*                                                                         *)
(* Calls between the two files.  planner.py constructs LongitudinalMpc(1,  *)
(* socket) and calls update(CS, lead, v_cruise_setpoint); long_mpc.py      *)
(* declares __init__(self, mpc_id) and update(self, pm, CS, lead,          *)
(* v_cruise_setpoint).  The model binds the arguments by their names; pm   *)
(* is read only when LOG_MPC is set.                                       *)
(***************************************************************************)
EXTENDS Integers, Sequences, FiniteSets, TLC

VARIABLES
  mpc1,     \* Planner.mpc1: LongitudinalMpc(1)
  mpc2,     \* Planner.mpc2: LongitudinalMpc(2)
  pl,       \* the Planner object's own fields
  plan,     \* the last plan message sent, and how many were sent
  cfg,      \* configuration read at construction (op_params, kegman, CP, fcw_enabled)
  inp,      \* the inputs of the cycle that ran last
  probe,    \* results of get_cost at the three anchor time gaps
  cycle     \* number of cycles (calls of update) started

vars == <<mpc1, mpc2, pl, plan, cfg, inp, probe, cycle>>

----------------------------------------------------------------------------
(* Floats *)

NaN == 2000000000

IsNaN(x) == x = NaN

Abs(x) == IF x < 0 THEN -x ELSE x

Min2(a, b) == IF a < b THEN a ELSE b

Max2(a, b) == IF a > b THEN a ELSE b

\* a < b on floats: false when either is a NaN
FLt(a, b) == ~IsNaN(a) /\ ~IsNaN(b) /\ a < b

FAdd(a, b) == IF IsNaN(a) \/ IsNaN(b) THEN NaN ELSE a + b

FSub(a, b) == IF IsNaN(a) \/ IsNaN(b) THEN NaN ELSE a - b

\* Python's min(seq): keeps the first element until a later one compares lower
RECURSIVE PyMinFrom(_, _, _)
PyMinFrom(s, i, best) ==
  IF i > Len(s) THEN best
  ELSE PyMinFrom(s, i + 1, IF FLt(s[i], best) THEN s[i] ELSE best)

PyMin(s) == PyMinFrom(s, 2, s[1])

\* Python's max(a, b): b only when b > a
PyMax2(a, b) == IF FLt(a, b) THEN b ELSE a

\* floor(a * b / c) for c > 0 without leaving 32 bits: a is halved until the
\* product fits.  Returns <<quotient, remainder>>.
RECURSIVE MulDivMod(_, _, _)
MulDivMod(a, b, c) ==
  IF b = 0 \/ Abs(a) <= 2147483647 \div Abs(b)
  THEN <<(a * b) \div c, (a * b) % c>>
  ELSE LET h  == a \div 2
           l  == a % 2
           qr == MulDivMod(h, b, c)
           \* a*b = 2*(q*c + r) + l*b
           rest == 2 * qr[2] + l * (b % c)
       IN <<2 * qr[1] + l * (b \div c) + rest \div c, rest % c>>

MulDiv(a, b, c) == MulDivMod(a, b, c)[1]

\* Python 2 round(x, 3) of a value in 1e-5 units, result in 1e-3 units
\* (half away from zero)
Round3(x) == IF x >= 0 THEN (x + 50) \div 100 ELSE -((-x + 50) \div 100)

\* integer square root
RECURSIVE ISqrtIn(_, _, _)
ISqrtIn(x, lo, hi) ==
  IF lo >= hi THEN lo
  ELSE LET mid == (lo + hi + 1) \div 2
       IN IF mid * mid <= x THEN ISqrtIn(x, mid, hi) ELSE ISqrtIn(x, lo, mid - 1)

ISqrt(x) == ISqrtIn(x, 0, 46340)

----------------------------------------------------------------------------
(* common.numpy_fast *)

RECURSIVE interp_hi(_, _, _)
interp_hi(x, xp, hi) ==
  IF hi < Len(xp) /\ x > xp[hi + 1] THEN interp_hi(x, xp, hi + 1) ELSE hi

\* piecewise-linear lookup, clamped to the end values outside the breakpoints
interp(x, xp, fp) ==
  LET N   == Len(xp)
      hi  == interp_hi(x, xp, 0)
      low == hi - 1
  IN  IF hi = N THEN fp[N]
      ELSE IF hi = 0 THEN fp[1]
      ELSE MulDiv(x - xp[low + 1], fp[hi + 1] - fp[low + 1], xp[hi + 1] - xp[low + 1])
           + fp[low + 1]

clip(x, lo, hi) == Max2(lo, Min2(hi, x))

----------------------------------------------------------------------------
(* long_mpc.py: class LongitudinalMpc *)

\* radar_helpers._LEAD_ACCEL_TAU (1.5)
LEAD_ACCEL_TAU == 15000

NoLeadData == [present |-> FALSE, v_lead |-> 0, x_lead |-> 0, a_lead |-> 0]

\* the state_t the optimizer is seeded with
ZeroState == [x_ego |-> 0, v_ego |-> 0, a_ego |-> 0, x_l |-> 0, v_l |-> 0]

ConstSeq(x) == [i \in 1..11 |-> x]

\* log_t as allocated by ffi.new: zero-filled.  Waypoints 0..10 of the
\* horizon are kept (Python index k is index k+1 here).
ZeroSolution ==
  [x_ego |-> ConstSeq(0), v_ego |-> ConstSeq(0), a_ego |-> ConstSeq(0), x_l |-> ConstSeq(0)]

\* What one call of update did, kept for the properties: the values handed to
\* run_mpc, the calls made into libmpc and cloudlog, and what the instance
\* held when the call began (entry_*).
NoCalls ==
  [init_with_simulation |-> 0, change_tr |-> 0, run_mpc |-> 0, init |-> 0, warning |-> 0,
   run_state |-> ZeroState, run_prev_lead_status |-> FALSE, run_TR |-> 0, run_a_lead |-> 0,
   sim_v |-> 0, phantom |-> FALSE, lead |-> FALSE,
   entry_prev_lead_status |-> FALSE, entry_prev_lead_x |-> 0, entry_nans |-> FALSE,
   entry_last_cost |-> 0, entry_last_cloudlog_t |-> 0, entry_reset |-> FALSE]

\* LongitudinalMpc.__init__ and setup_mpc; customTR is <<>> for None, <<x>> for x
LongitudinalMpc_init(following_distance) ==
  [v_mpc |-> 0, v_mpc_future |-> 0, a_mpc |-> 0, v_cruise |-> 0,
   prev_lead_status |-> FALSE, prev_lead_x |-> 0, new_lead |-> FALSE,
   v_ego |-> 0, car_state |-> [leftBlinker |-> FALSE, rightBlinker |-> FALSE],
   last_cost |-> 0, lead_data |-> NoLeadData, customTR |-> following_distance,
   last_cloudlog_t |-> 0, mpc_solution |-> ZeroSolution, cur_state |-> ZeroState,
   a_lead_tau |-> LEAD_ACCEL_TAU, TR |-> 0, calls |-> NoCalls,
   car_data |-> [lead_vels |-> <<>>, traffic_vels |-> <<>>], mpc_frame |-> 0,
   \* whether update ever took its lead branch, its phantom branch
   ever_lead |-> FALSE, ever_phantom |-> FALSE]

\* self.rate, the calls per second save_car_data assumes
rate == 20

\* while len(s) > cap: del s[0]
evict_front(s, cap) == IF Len(s) > cap THEN SubSeq(s, Len(s) - cap + 1, Len(s)) ELSE s

\* save_car_data: lines 84-98
save_car_data(m) ==
  IF m.lead_data.present
  THEN LET lead_vels == Append(evict_front(m.car_data.lead_vels, rate * 3),
                               m.lead_data.v_lead)
           second == m.mpc_frame >= rate
           traffic_vels == IF second
                           THEN Append(evict_front(m.car_data.traffic_vels, 180),
                                       m.lead_data.v_lead)
                           ELSE m.car_data.traffic_vels
       IN [m EXCEPT !.car_data = [lead_vels |-> lead_vels, traffic_vels |-> traffic_vels],
                    !.mpc_frame = (IF second THEN 0 ELSE @) + 1]
  ELSE [m EXCEPT !.car_data.lead_vels = <<>>]

set_cur_state(m, v, a) == [m EXCEPT !.cur_state.v_ego = v, !.cur_state.a_ego = a]

\* the base curve of dynamic_follow, in 1e-5 s
x_vel == <<0, 52220, 111640, 149370, 209730, 339750, 424690>>

y_mod == <<154200, 155300, 159900, 168000, 175000, 185500, 190000>>

dynamic_follow_wrong_sign(m) ==
  LET TR0 == interp(m.v_ego, x_vel, y_mod)
      x1 == <<-156464, -98422, -60000, -40000, -26800, -23000, -18000, -12600, -6100, 0,
              6100, 12600, 21000, 26800>>
      y1 == <<50400, 34000, 29000, 25000, 22000, 19000, 13000, 5300, 1700, 0,
              -1500, -4200, -10800, -16300>>
  IN  IF m.v_ego > 67056 /\ m.lead_data.present
      THEN clip(Round3(TR0 - interp(m.lead_data.v_lead - m.v_ego, x1, y1)), 900, 2700)
      ELSE Round3(TR0)

dynamic_follow_no_early_return(m) ==
  LET x == <<44704, 67056>>
      y == <<180000, interp(x[2], x_vel, y_mod)>>
      TR0 == IF m.v_ego > 67056 THEN interp(m.v_ego, x_vel, y_mod) ELSE interp(m.v_ego, x, y)
      x1 == <<-156464, -98422, -60000, -40000, -26800, -23000, -18000, -12600, -6100, 0,
              6100, 12600, 21000, 26800>>
      y1 == <<50400, 34000, 29000, 25000, 22000, 19000, 13000, 5300, 1700, 0,
              -1500, -4200, -10800, -16300>>
  IN  IF m.lead_data.present
      THEN clip(Round3(TR0 + interp(m.lead_data.v_lead - m.v_ego, x1, y1)), 900, 2700)
      ELSE clip(Round3(TR0), 900, 2700)

\* dynamic_follow: the time gap in 1e-3 s
dynamic_follow(m) ==
  IF m.v_ego > 67056
  THEN LET TR0 == interp(m.v_ego, x_vel, y_mod)
       IN IF m.lead_data.present
          THEN LET x1 == <<-156464, -98422, -60000, -40000, -26800, -23000, -18000,
                           -12600, -6100, 0, 6100, 12600, 21000, 26800>>
                   y1 == <<50400, 34000, 29000, 25000, 22000, 19000, 13000, 5300, 1700, 0,
                           -1500, -4200, -10800, -16300>>
                   x2 == <<-22350, -14900, -11000, -6700, -2240, 0, 6700, 11000, 14900>>
                   y2 == <<26000, 18200, 10400, 5200, 3900, 0, -1600, -3200, -5600>>
                   TR_mod == interp(m.lead_data.v_lead - m.v_ego, x1, y1)
                             + interp(m.lead_data.a_lead, x2, y2)
                   TR1 == TR0 + TR_mod
                   x3 == <<89408, 223520, 312928>>
                   y3 == <<10000, 8000, 7500>>
                   TR2 == IF m.car_state.leftBlinker \/ m.car_state.rightBlinker
                          THEN MulDiv(TR1, interp(m.v_ego, x3, y3), 10000)
                          ELSE TR1
               IN clip(Round3(TR2), 900, 2700)
          ELSE clip(Round3(TR0), 900, 2700)
  ELSE LET x == <<44704, 67056>>
           y == <<180000, interp(x[2], x_vel, y_mod)>>
       IN Round3(interp(m.v_ego, x, y))

get_cost_no_real_TR(m, TR) ==
  Round3(interp(TR, <<900, 1800, 2700>>, <<100000, 10000, 5000>>)) * 100

\* get_cost: TR in 1e-3 s, the cost in 1e-5
get_cost(m, TR) ==
  LET x == <<900, 1800, 2700>>
      y == <<100000, 10000, 5000>>
      TRsel == IF m.lead_data.present /\ m.v_ego # 0
               THEN IF Abs(1000 * m.lead_data.x_lead - TR * m.v_ego) >= 250 * Abs(m.v_ego)
                    THEN (1000 * m.lead_data.x_lead) \div m.v_ego
                    ELSE TR
               ELSE TR
  IN IF m.lead_data.present /\ m.v_ego > 50000
     THEN LET factor == clip((m.lead_data.v_lead - m.v_ego) \div 2 + 15000, 10000, 20000)
          IN clip((interp(TRsel, x, y) * 10000) \div factor, 110000, 450000)
     ELSE Round3(interp(TRsel, x, y)) * 100

change_cost_every_cycle(m, new_cost) ==
  [m EXCEPT !.last_cost = new_cost, !.calls.change_tr = @ + 1]

\* change_cost: lines 170-173
change_cost(m, new_cost) ==
  IF m.last_cost # new_cost
  THEN [m EXCEPT !.last_cost = new_cost, !.calls.change_tr = @ + 1]
  ELSE m

read_distance_lines == 2

\* the pattern of get_TR's branches: cost = get_cost(TR); change_cost(cost);
\* return TR
return_TR(m, TR) == [change_cost(m, get_cost(m, TR)) EXCEPT !.TR = TR]

get_TR_unclamped(m) ==
  IF ~m.lead_data.present THEN return_TR(m, 1800)
  ELSE IF m.customTR # <<>> THEN return_TR(m, m.customTR[1])
  ELSE return_TR(m, dynamic_follow(m))

get_TR_override_first(m) ==
  IF m.customTR # <<>>
  THEN return_TR([m EXCEPT !.customTR = <<clip(m.customTR[1], 900, 2700)>>],
                 clip(m.customTR[1], 900, 2700))
  ELSE IF ~m.lead_data.present THEN return_TR(m, 1800)
  ELSE return_TR(m, dynamic_follow(m))

\* get_TR: the instance after the call, the returned value in field TR
get_TR(m) ==
  IF ~m.lead_data.present
  THEN return_TR(m, 1800)
  ELSE IF m.customTR # <<>>
  THEN return_TR([m EXCEPT !.customTR = <<clip(m.customTR[1], 900, 2700)>>],
                 clip(m.customTR[1], 900, 2700))
  ELSE IF m.v_ego < 20000 /\ read_distance_lines # 2
  THEN [m EXCEPT !.TR = 1800]
  ELSE IF read_distance_lines = 1
  THEN [change_cost(m, 100000) EXCEPT !.TR = 900]
  ELSE IF read_distance_lines = 2
  THEN return_TR(m, dynamic_follow(m))
  ELSE [change_cost(m, 5000) EXCEPT !.TR = 2700]

\* process_phantom: <<x_lead, v_lead>>
process_phantom(lead, ph) ==
  IF lead.status
  THEN LET v0 == Max2(0, lead.vLead)
           v1 == IF v0 < 1000 \/ (-lead.aLeadK) \div 2 > v0 THEN 0 ELSE v0
       IN <<Min2(91440, lead.dRel), Min2(ph.speed, v1)>>
  ELSE <<91440, ph.speed>>

seed_lead_on_jump_only(m, x_lead, v_lead) ==
  LET cold == Abs(x_lead - m.prev_lead_x) > 25000
  IN [m EXCEPT !.new_lead = cold,
               !.calls.init_with_simulation = IF cold THEN @ + 1 ELSE @,
               !.calls.sim_v = IF cold THEN m.v_mpc ELSE @,
               !.prev_lead_status = TRUE,
               !.prev_lead_x = x_lead,
               !.cur_state.x_l = x_lead,
               !.cur_state.v_l = v_lead]

seed_lead_at_threshold(m, x_lead, v_lead) ==
  LET cold == ~m.prev_lead_status \/ Abs(x_lead - m.prev_lead_x) >= 25000
  IN [m EXCEPT !.new_lead = cold,
               !.calls.init_with_simulation = IF cold THEN @ + 1 ELSE @,
               !.calls.sim_v = IF cold THEN m.v_mpc ELSE @,
               !.prev_lead_status = TRUE,
               !.prev_lead_x = x_lead,
               !.cur_state.x_l = x_lead,
               !.cur_state.v_l = v_lead]

\* the cold start shared by the phantom and the lead branch of update
seed_lead(m, x_lead, v_lead) ==
  LET cold == ~m.prev_lead_status \/ Abs(x_lead - m.prev_lead_x) > 25000
  IN [m EXCEPT !.new_lead = cold,
               !.calls.init_with_simulation = IF cold THEN @ + 1 ELSE @,
               !.calls.sim_v = IF cold THEN m.v_mpc ELSE @,
               !.prev_lead_status = TRUE,
               !.prev_lead_x = x_lead,
               !.cur_state.x_l = x_lead,
               !.cur_state.v_l = v_lead]

\* The optimizer's answer (libmpc.run_mpc fills mpc_solution): a trajectory
\* whose velocity is v1 up to waypoint 9 and v10 at waypoint 10, the
\* acceleration a1, the lead 50 m ahead of ego throughout.
Trajectory(v1, a1, v10) ==
  [x_ego |-> ConstSeq(0), x_l |-> ConstSeq(500000),
   v_ego |-> [i \in 1..11 |-> IF i = 11 THEN v10 ELSE v1], a_ego |-> ConstSeq(a1)]

\* one waypoint of a trajectory replaced
WithVelocity(sol, i, v) == [sol EXCEPT !.v_ego[i] = v]

WithLeadPos(sol, i, x) == [sol EXCEPT !.x_l[i] = x]

crashing(sol) == \E i \in 1..11 : sol.x_l[i] - sol.x_ego[i] < -500000

nans(sol) == \E i \in 1..11 : IsNaN(sol.v_ego[i])

backwards(sol) == FLt(PyMin(sol.v_ego), -100)

must_reset_without_lead(m, sol) == backwards(sol) \/ crashing(sol) \/ nans(sol)

\* the condition of the hard reset after a solve
must_reset(m, sol) == ((backwards(sol) \/ crashing(sol)) /\ m.prev_lead_status) \/ nans(sol)

hard_reset_logs_at_5s(m, CS, t) ==
  [m EXCEPT !.last_cloudlog_t = IF t >= m.last_cloudlog_t + 50000 THEN t ELSE @,
            !.calls.warning = IF t >= m.last_cloudlog_t + 50000 THEN @ + 1 ELSE @,
            !.calls.init = @ + 1,
            !.cur_state.v_ego = CS.vEgo,
            !.cur_state.a_ego = 0,
            !.v_mpc = CS.vEgo,
            !.a_mpc = CS.aEgo,
            !.prev_lead_status = FALSE]

hard_reset_keeps_lead_status(m, CS, t) ==
  [m EXCEPT !.last_cloudlog_t = IF t > m.last_cloudlog_t + 50000 THEN t ELSE @,
            !.calls.warning = IF t > m.last_cloudlog_t + 50000 THEN @ + 1 ELSE @,
            !.calls.init = @ + 1,
            !.cur_state.v_ego = CS.vEgo,
            !.cur_state.a_ego = 0,
            !.v_mpc = CS.vEgo,
            !.a_mpc = CS.aEgo]

\* the hard reset: lines 311-322
hard_reset(m, CS, t) ==
  [m EXCEPT !.last_cloudlog_t = IF t > m.last_cloudlog_t + 50000 THEN t ELSE @,
            !.calls.warning = IF t > m.last_cloudlog_t + 50000 THEN @ + 1 ELSE @,
            !.calls.init = @ + 1,
            !.cur_state.v_ego = CS.vEgo,
            !.cur_state.a_ego = 0,
            !.v_mpc = CS.vEgo,
            !.a_mpc = CS.aEgo,
            !.prev_lead_status = FALSE]

\* update, phantom branch (lines 234-260): <<instance, a_lead>>
update_phantom(m, v_ego, lead, ph) ==
  IF ph.speed # 0
  THEN <<seed_lead([m EXCEPT !.a_lead_tau = lead.aLeadTau, !.calls.phantom = TRUE,
                             !.ever_phantom = TRUE],
                   process_phantom(lead, ph)[1], process_phantom(lead, ph)[2]), 0>>
  ELSE IF ph.lost_connection
  THEN <<seed_lead([m EXCEPT !.a_lead_tau = lead.aLeadTau, !.calls.phantom = TRUE,
                             !.ever_phantom = TRUE],
                   interp(v_ego, <<0, 143053>>, <<6096, 60960>>), Max2(v_ego - 44704, 0)),
         interp(v_ego, <<0, 143053>>, <<0, -22352>>)>>
  ELSE <<seed_lead([m EXCEPT !.a_lead_tau = lead.aLeadTau, !.calls.phantom = TRUE,
                             !.ever_phantom = TRUE],
                   37500, Max2(v_ego - 13411, 0)), -4470>>

\* lines 262-268: <<v_lead, a_lead>> of a radar lead
lead_motion(lead) ==
  IF Max2(0, lead.vLead) < 1000 \/ (-lead.aLeadK) \div 2 > Max2(0, lead.vLead)
  THEN <<0, 0>>
  ELSE <<Max2(0, lead.vLead), lead.aLeadK>>

\* update, lead branch (lines 261-281): <<instance, a_lead>>
update_lead(m, lead) ==
  <<seed_lead([m EXCEPT !.lead_data = [present |-> TRUE, v_lead |-> lead_motion(lead)[1],
                                        x_lead |-> lead.dRel,
                                        a_lead |-> lead_motion(lead)[2]],
                        !.a_lead_tau = lead.aLeadTau,
                        !.calls.lead = TRUE,
                        !.ever_lead = TRUE],
              lead.dRel, lead_motion(lead)[1]),
    lead_motion(lead)[2]>>

\* update, no lead (lines 282-289): <<instance, a_lead>>
update_no_lead(m, v_ego) ==
  <<[m EXCEPT !.prev_lead_status = FALSE,
             !.cur_state.x_l = 500000,
             !.cur_state.v_l = v_ego + 100000,
             !.lead_data = NoLeadData,
             !.a_lead_tau = LEAD_ACCEL_TAU], 0>>

\* lines 305-322: the result checked, the instance reset on a fault
check_solution(m, CS, sol, t) ==
  IF must_reset(m, sol) THEN hard_reset(m, CS, t) ELSE m

\* lines 292-303: run_mpc with the seeded state and the readout of its answer
solve(m, a_lead, sol) ==
  [m EXCEPT !.calls.run_mpc = @ + 1,
            !.calls.run_state = m.cur_state,
            !.calls.run_prev_lead_status = m.prev_lead_status,
            !.calls.run_TR = m.TR,
            !.calls.run_a_lead = a_lead,
            !.mpc_solution = sol,
            !.v_mpc = sol.v_ego[2],
            !.a_mpc = sol.a_ego[2],
            !.v_mpc_future = sol.v_ego[11]]

\* lines 291-322 for the <<instance, a_lead>> a branch left
update_solve(br, CS, sol, t) == check_solution(solve(get_TR(br[1]), br[2], sol), CS, sol, t)

\* lines 234-289: the branch on phantom mode and lead status
update_branch(m, CS, lead, ph) ==
  IF ph.status THEN update_phantom(m, CS.vEgo, lead, ph)
  ELSE IF lead.status THEN update_lead(m, lead)
  ELSE update_no_lead(m, CS.vEgo)

\* LongitudinalMpc.update(CS, lead, ...): ph is what self.phantom.update()
\* left in self.phantom, sol what run_mpc writes to mpc_solution, t the
\* value of sec_since_boot() before the solve
LongitudinalMpc_update(m, CS, lead, ph, sol, t) ==
  update_solve(update_branch([m EXCEPT !.car_state = [leftBlinker |-> CS.leftBlinker,
                                                      rightBlinker |-> CS.rightBlinker],
                                       !.v_ego = CS.vEgo,
                                       !.cur_state.x_ego = 0,
                                       !.calls = [NoCalls EXCEPT
                                         !.entry_prev_lead_status = m.prev_lead_status,
                                         !.entry_prev_lead_x = m.prev_lead_x,
                                         !.entry_last_cost = m.last_cost,
                                         !.entry_last_cloudlog_t = m.last_cloudlog_t,
                                         !.entry_reset = m.calls.init >= 1,
                                         !.entry_nans = nans(m.mpc_solution)]],
                             CS, lead, ph),
               CS, sol, t)

----------------------------------------------------------------------------
(* planner.py *)

\* 200 mph in m/s
NO_CURVATURE_SPEED == 894080

DT_MPC == 2000

AWARENESS_DECEL == -2000

\* longcontrol.MIN_CAN_SPEED (0.3)
MIN_CAN_SPEED == 3000

A_CRUISE_MIN_V == <<-8000, -7000, -6000, -5000, -3000>>

A_CRUISE_MIN_BP == <<0, 50000, 100000, 200000, 550000>>

A_CRUISE_MAX_V == <<35000, 30000, 15000, 5000, 3000>>

A_CRUISE_MAX_V_ECO == <<10000, 15000, 10000, 3000, 1000>>

A_CRUISE_MAX_V_SPORT == <<35000, 35000, 35000, 35000, 35000>>

A_CRUISE_MAX_V_FOLLOWING == <<13000, 16000, 12000, 7000, 3000>>

A_CRUISE_MAX_BP == <<0, 50000, 100000, 200000, 550000>>

A_TOTAL_MAX_BP == <<0, 250000, 550000>>

\* _A_TOTAL_MAX_V for a brake factor given in 1e-2
A_TOTAL_MAX_V(brakefactor) ==
  <<(23000 * brakefactor) \div 100, (30000 * brakefactor) \div 100,
    (39000 * brakefactor) \div 100>>

calc_cruise_accel_limits_by_mode(v_ego, following, gasbuttonstatus) ==
  LET a_cruise_min == interp(v_ego, A_CRUISE_MIN_BP, A_CRUISE_MIN_V)
      a_cruise_max ==
        IF gasbuttonstatus = 1 THEN interp(v_ego, A_CRUISE_MAX_BP, A_CRUISE_MAX_V_SPORT)
        ELSE IF gasbuttonstatus = 2 THEN interp(v_ego, A_CRUISE_MAX_BP, A_CRUISE_MAX_V_ECO)
        ELSE interp(v_ego, A_CRUISE_MAX_BP, A_CRUISE_MAX_V)
  IN <<a_cruise_min, a_cruise_max>>

\* calc_cruise_accel_limits: <<a_cruise_min, a_cruise_max>>
calc_cruise_accel_limits(v_ego, following, gasbuttonstatus) ==
  LET a_cruise_min == interp(v_ego, A_CRUISE_MIN_BP, A_CRUISE_MIN_V)
      a_cruise_max ==
        IF following THEN interp(v_ego, A_CRUISE_MAX_BP, A_CRUISE_MAX_V_FOLLOWING)
        ELSE IF gasbuttonstatus = 1 THEN interp(v_ego, A_CRUISE_MAX_BP, A_CRUISE_MAX_V_SPORT)
        ELSE IF gasbuttonstatus = 2 THEN interp(v_ego, A_CRUISE_MAX_BP, A_CRUISE_MAX_V_ECO)
        ELSE interp(v_ego, A_CRUISE_MAX_BP, A_CRUISE_MAX_V)
  IN <<a_cruise_min, a_cruise_max>>

\* v_ego**2 * abs(angle) * DEG_TO_RAD / (steerRatio * wheelbase); the angle in
\* 1e-2 degrees, steerRatio * wheelbase in 1e-1 m
lateral_accel(v_ego, angle, CP) ==
  MulDiv(MulDiv(MulDiv(v_ego, v_ego, 10000), Abs(angle), 100), 174533,
         1000000 * CP.steerRatio_wheelbase)

\* limit_accel_in_turns: a_target is <<a_min, a_max>>
limit_accel_in_turns(v_ego, angle_steers, a_target, CP, angle_later) ==
  LET a_total_max  == interp(v_ego, A_TOTAL_MAX_BP, A_TOTAL_MAX_V(CP.brakefactor))
      a_x_allowed  == a_total_max - lateral_accel(v_ego, angle_steers, CP)
      a_x_allowed2 == a_total_max - lateral_accel(v_ego, angle_later, CP)
      a1 == Min2(a_target[2], Min2(a_x_allowed, a_x_allowed2))
  IN <<Min2(a_target[1], a1), a1>>

\* min(solutions, key=solutions.get) over the keys in the dict's iteration
\* order: the first key stays until a later one has a lower velocity
RECURSIVE slowest_from(_, _, _, _)
slowest_from(keys, solutions, i, best) ==
  IF i > Len(keys) THEN best
  ELSE slowest_from(keys, solutions, i + 1,
                    IF FLt(solutions[keys[i]], solutions[best]) THEN keys[i] ELSE best)

choose_solution_all_three(p, m1, m2, v_cruise_setpoint, enabled, dict_order) ==
  LET solutions == [k \in {"cruise", "mpc1", "mpc2"} |->
                      IF k = "cruise" THEN p.v_cruise
                      ELSE IF k = "mpc1" THEN m1.v_mpc ELSE m2.v_mpc]
      slowest == slowest_from(dict_order, solutions, 2, dict_order[1])
      p1 == IF ~enabled THEN p
            ELSE [p EXCEPT !.longitudinalPlanSource = slowest,
                           !.v_acc = solutions[slowest],
                           !.a_acc = IF slowest = "mpc1" THEN m1.a_mpc
                                     ELSE IF slowest = "mpc2" THEN m2.a_mpc
                                     ELSE p.a_cruise]
  IN [p1 EXCEPT !.v_acc_future = PyMin(<<m1.v_mpc_future, m2.v_mpc_future, v_cruise_setpoint>>)]

choose_solution_mpc2_always(p, m1, m2, v_cruise_setpoint, enabled, dict_order) ==
  LET present == [k \in {"cruise", "mpc1", "mpc2"} |->
                    IF k = "mpc1" THEN m1.prev_lead_status ELSE TRUE]
      solutions == [k \in {"cruise", "mpc1", "mpc2"} |->
                      IF k = "cruise" THEN p.v_cruise
                      ELSE IF k = "mpc1" THEN m1.v_mpc ELSE m2.v_mpc]
      keys == SelectSeq(dict_order, LAMBDA k : present[k])
      slowest == slowest_from(keys, solutions, 2, keys[1])
      p1 == IF ~enabled THEN p
            ELSE [p EXCEPT !.longitudinalPlanSource = slowest,
                           !.v_acc = solutions[slowest],
                           !.a_acc = IF slowest = "mpc1" THEN m1.a_mpc
                                     ELSE IF slowest = "mpc2" THEN m2.a_mpc
                                     ELSE p.a_cruise]
  IN [p1 EXCEPT !.v_acc_future = PyMin(<<m1.v_mpc_future, m2.v_mpc_future, v_cruise_setpoint>>)]

choose_solution_resets_source(p, m1, m2, v_cruise_setpoint, enabled, dict_order) ==
  LET present == [k \in {"cruise", "mpc1", "mpc2"} |->
                    IF k = "cruise" THEN TRUE
                    ELSE IF k = "mpc1" THEN m1.prev_lead_status ELSE m2.prev_lead_status]
      solutions == [k \in {"cruise", "mpc1", "mpc2"} |->
                      IF k = "cruise" THEN p.v_cruise
                      ELSE IF k = "mpc1" THEN m1.v_mpc ELSE m2.v_mpc]
      keys == SelectSeq(dict_order, LAMBDA k : present[k])
      slowest == slowest_from(keys, solutions, 2, keys[1])
      p1 == IF ~enabled THEN [p EXCEPT !.longitudinalPlanSource = "cruise"]
            ELSE [p EXCEPT !.longitudinalPlanSource = slowest,
                           !.v_acc = solutions[slowest],
                           !.a_acc = IF slowest = "mpc1" THEN m1.a_mpc
                                     ELSE IF slowest = "mpc2" THEN m2.a_mpc
                                     ELSE p.a_cruise]
  IN [p1 EXCEPT !.v_acc_future = PyMin(<<m1.v_mpc_future, m2.v_mpc_future, v_cruise_setpoint>>)]

\* Planner.choose_solution; dict_order is the iteration order of the dict
\* {'cruise', 'mpc1', 'mpc2'} in this Python build
choose_solution(p, m1, m2, v_cruise_setpoint, enabled, dict_order) ==
  LET present == [k \in {"cruise", "mpc1", "mpc2"} |->
                    IF k = "cruise" THEN TRUE
                    ELSE IF k = "mpc1" THEN m1.prev_lead_status ELSE m2.prev_lead_status]
      solutions == [k \in {"cruise", "mpc1", "mpc2"} |->
                      IF k = "cruise" THEN p.v_cruise
                      ELSE IF k = "mpc1" THEN m1.v_mpc ELSE m2.v_mpc]
      keys == SelectSeq(dict_order, LAMBDA k : present[k])
      slowest == slowest_from(keys, solutions, 2, keys[1])
      p1 == IF ~enabled THEN p
            ELSE [p EXCEPT !.longitudinalPlanSource = slowest,
                           !.v_acc = solutions[slowest],
                           !.a_acc = IF slowest = "mpc1" THEN m1.a_mpc
                                     ELSE IF slowest = "mpc2" THEN m2.a_mpc
                                     ELSE p.a_cruise]
  IN [p1 EXCEPT !.v_acc_future = PyMin(<<m1.v_mpc_future, m2.v_mpc_future, v_cruise_setpoint>>)]

\* Planner.__init__
Planner_init ==
  [v_acc_start |-> 0, a_acc_start |-> 0, v_acc |-> 0, v_acc_future |-> 0, a_acc |-> 0,
   v_cruise |-> 0, a_cruise |-> 0, longitudinalPlanSource |-> "cruise",
   lastlat_Control |-> <<>>, aborted |-> FALSE,
   \* what the last cycle did, kept for the properties
   reset_lead |-> 0, smoother |-> <<>>, v_cruise_setpoint |-> 0, seeded |-> <<>>,
   \* what the last cycle found when it began
   carried |-> [longitudinalPlanSource |-> "cruise", v_acc_start |-> 0, a_acc_start |-> 0,
                aStart |-> 0, aTarget |-> 0]]

NoPlan ==
  [vCruise |-> 0, aCruise |-> 0, vStart |-> 0, aStart |-> 0, vTarget |-> 0, aTarget |-> 0,
   vTargetFuture |-> 0, hasLead |-> FALSE, hasrightLaneDepart |-> FALSE,
   hasleftLaneDepart |-> FALSE, longitudinalPlanSource |-> "cruise", vCurvature |-> 0,
   decelForTurn |-> FALSE, mapValid |-> FALSE, radarValid |-> FALSE,
   radarCommIssue |-> FALSE, fcw |-> FALSE]

\* lines 171-229 up to the curvature ceiling: the three map ceilings and the
\* look-ahead distance, for speed-limit enforcement on and the map valid
map_limits(v_ego, gasbuttonstatus, map, offset) ==
  LET sad0 == IF gasbuttonstatus = 1 THEN 1500000
              ELSE IF gasbuttonstatus = 2 THEN 3500000 ELSE 2500000
      sla  == map.speedLimitAhead
      dist == map.speedLimitAheadDistance
      ahead == map.speedLimitAheadValid /\ dist < sad0
      low  == ahead /\ sla < 58333
      d0   == ((v_ego - sla) * 72) \div 10
      distanceatlowlimit == IF low THEN Min2(IF d0 < 500000 THEN 0 ELSE d0, 1000000)
                            ELSE 500000
      sad  == IF low THEN Max2(Min2((v_ego - sla) * 18, 3000000), 500000) ELSE sad0
      ramp == map.speedLimitValid /\ dist > distanceatlowlimit
              /\ v_ego + 30000 < sla + MulDiv(map.speedLimit - sla, dist, sad)
      speed_limit_ahead ==
        IF ramp
        THEN sla + MulDiv(map.speedLimit - sla, dist - distanceatlowlimit,
                          sad - distanceatlowlimit)
        ELSE sla
      radius == 100000000 \div Max2(100, Abs(map.curvature))
      c == IF radius > 50000 THEN 7
           ELSE IF radius > 25000 THEN 27 - ((1 \div 250) * radius) \div 10
           ELSE 30 - ((13 \div 2500) * radius) \div 10
  IN [v_speedlimit |-> IF map.speedLimitValid THEN map.speedLimit + offset
                       ELSE NO_CURVATURE_SPEED,
      v_speedlimit_ahead |-> IF ahead THEN speed_limit_ahead + offset
                             ELSE NO_CURVATURE_SPEED,
      v_curvature |-> IF map.curvatureValid
                      THEN Min2(NO_CURVATURE_SPEED, 100 * ISqrt(c * radius * 10))
                      ELSE NO_CURVATURE_SPEED,
      speed_ahead_distance |-> sad]

NoMapLimits(gasbuttonstatus) ==
  [v_speedlimit |-> NO_CURVATURE_SPEED, v_speedlimit_ahead |-> NO_CURVATURE_SPEED,
   v_curvature |-> NO_CURVATURE_SPEED,
   speed_ahead_distance |-> IF gasbuttonstatus = 1 THEN 1500000
                            ELSE IF gasbuttonstatus = 2 THEN 3500000 ELSE 2500000]

decel_for_turn_ignoring_limit(v_curvature, v_cruise_setpoint, v_speedlimit, v_ego) ==
  v_curvature < Min2(v_cruise_setpoint, v_ego + 10000)

\* line 228
decel_for_turn_of(v_curvature, v_cruise_setpoint, v_speedlimit, v_ego) ==
  v_curvature < Min2(v_cruise_setpoint, Min2(v_speedlimit, v_ego + 10000))

\* line 235
following_of(lead_1, v_ego) ==
  lead_1.status /\ lead_1.dRel < 450000 /\ lead_1.vLeadK > v_ego /\ lead_1.aLeadK > 0

\* lines 237-243: <<j_min, j_max>> for the accel limits of line 236
jerk_limits_of(g, v_ego, al) ==
  IF g = 0 THEN <<Min2(-1000, al[1]), Max2(2000 - (18 * v_ego) \div 10000, al[2])>>
  ELSE IF g = 1 THEN <<Min2(-2500, al[1]), Max2(4000 - (20 * v_ego) \div 10000, al[2])>>
  ELSE <<Min2(-1000, al[1]), Max2(1000 - (15 * v_ego) \div 10000, al[2])>>

\* lines 244-254: the steering angle now and the one the lateral plan
\* expects later, both zero while a blinker is on
angle_now(in) ==
  IF in.CS.leftBlinker \/ in.CS.rightBlinker THEN 0 ELSE in.CS.steeringAngle

angle_later_of(p, in) ==
  IF ~(in.CS.leftBlinker \/ in.CS.rightBlinker) /\ p.lastlat_Control # <<>>
     /\ in.CS.vEgo > 110000
  THEN p.lastlat_Control[1] ELSE 0

\* lines 256-259
force_decel(al, forceDecel) ==
  IF forceDecel
  THEN <<Min2(al[1], Min2(al[2], AWARENESS_DECEL)), Min2(al[2], AWARENESS_DECEL)>>
  ELSE al

\* lines 261-266
turn_decel(in, lim) ==
  Min2(0, MulDiv(lim.v_curvature - in.CS.vEgo, 10000,
                 Max2(10000, MulDiv(in.map.distToTurn, 10000,
                                    Max2((in.CS.vEgo + lim.v_curvature) \div 2, 10000)))))

turn_anticipation(al, in, lim, decel_for_turn) ==
  IF decel_for_turn /\ in.map.distToTurn < lim.speed_ahead_distance
  THEN <<Max2(al[1], turn_decel(in, lim)), al[2]>>
  ELSE al

ahead_override_any_source(p, in, lim) ==
  lim.v_speedlimit_ahead < lim.v_speedlimit /\ in.CS.vEgo > lim.v_speedlimit_ahead

\* line 269
ahead_override(p, in, lim) ==
  lim.v_speedlimit_ahead < lim.v_speedlimit
  /\ p.longitudinalPlanSource = "cruise"
  /\ in.CS.vEgo > lim.v_speedlimit_ahead

\* lines 270-271, for a distance other than 0
required_decel_of(in, lim) ==
  Max2(Min2(0, MulDiv(lim.v_speedlimit_ahead - in.CS.vEgo,
                      lim.v_speedlimit_ahead + in.CS.vEgo,
                      in.map.speedLimitAheadDistance * 2)), -30000)

\* lines 244-283 for the limits al of line 236
cruise_limits_from(al, p, in, lim, decel_for_turn, CP) ==
  IF ahead_override(p, in, lim)
  THEN IF in.map.speedLimitAheadDistance * 2 = 0
       THEN [ahead |-> TRUE, zero_division |-> TRUE, required_decel |-> 0,
             accel_limits |-> <<0, 0>>, jerk_limits |-> jerk_limits_of(in.CS.gasbuttonstatus,
                                                                      in.CS.vEgo, al)]
       ELSE [ahead |-> TRUE, zero_division |-> FALSE,
             required_decel |-> required_decel_of(in, lim),
             accel_limits |-> <<required_decel_of(in, lim), required_decel_of(in, lim)>>,
             jerk_limits |-> jerk_limits_of(in.CS.gasbuttonstatus, in.CS.vEgo, al)]
  ELSE [ahead |-> FALSE, zero_division |-> FALSE, required_decel |-> 0,
        accel_limits |->
          turn_anticipation(
            force_decel(limit_accel_in_turns(in.CS.vEgo, angle_now(in), al, CP,
                                             (angle_later_of(p, in) * CP.steerRatio) \div 10),
                        in.forceDecel),
            in, lim, decel_for_turn),
        jerk_limits |-> jerk_limits_of(in.CS.gasbuttonstatus, in.CS.vEgo, al)]

\* lines 232-283, the limits handed to the smoother: <<a_min, a_max>>, the
\* jerk limits <<j_min, j_max>>; ahead says whether the ahead-limit override
\* of line 269 applies and required_decel is its deceleration
cruise_limits(p, in, lim, decel_for_turn, CP) ==
  cruise_limits_from(calc_cruise_accel_limits(in.CS.vEgo, following_of(in.lead_1, in.CS.vEgo),
                                              in.CS.gasbuttonstatus),
                     p, in, lim, decel_for_turn, CP)

\* speed_smoother.speed_smoother: the smoothed (v, a) after one MPC step; out
\* is what it computes from finite arguments
speed_smoother(v_start, a_start, v_target, a_max, a_min, j_max, j_min, out) ==
  IF IsNaN(v_start) \/ IsNaN(a_start) THEN [v |-> NaN, a |-> NaN] ELSE out

\* x * num / den on floats
FScale(x, num, den) == IF IsNaN(x) THEN NaN ELSE MulDiv(x, num, den)

advance_to_target(p) ==
  LET a_acc_sol == p.a_acc
      v_acc_sol == FAdd(p.v_acc_start, FScale(FAdd(a_acc_sol, p.a_acc_start), 500, 20000))
  IN [p EXCEPT !.v_acc_start = v_acc_sol, !.a_acc_start = a_acc_sol]

\* lines 375-380: the recurrence state advanced by dt = 0.05 s
advance(p) ==
  LET a_acc_sol == FAdd(p.a_acc_start, FScale(FSub(p.a_acc, p.a_acc_start), 500, DT_MPC))
      v_acc_sol == FAdd(p.v_acc_start, FScale(FAdd(a_acc_sol, p.a_acc_start), 500, 20000))
  IN [p EXCEPT !.v_acc_start = v_acc_sol, !.a_acc_start = a_acc_sol]

seed_mpcs_from_ego(m, p, CS) == set_cur_state(m, CS.vEgo, 0)

\* lines 308-309
seed_mpcs(m, p, CS) == set_cur_state(m, p.v_acc_start, p.a_acc_start)

disengaged_reset_keeps_start(p, CS, starting, CP) ==
  LET reset_speed == IF starting THEN MIN_CAN_SPEED ELSE CS.vEgo
      reset_accel == IF starting THEN CP.startAccel ELSE Min2(CS.aEgo, 0)
  IN [p EXCEPT !.v_acc = reset_speed, !.a_acc = reset_accel,
               !.v_cruise = reset_speed, !.a_cruise = reset_accel, !.smoother = <<>>]

disengaged_reset_signed_accel(p, CS, starting, CP) ==
  LET reset_speed == IF starting THEN MIN_CAN_SPEED ELSE CS.vEgo
      reset_accel == IF starting THEN CP.startAccel ELSE CS.aEgo
  IN [p EXCEPT !.v_acc = reset_speed, !.a_acc = reset_accel,
               !.v_acc_start = reset_speed, !.a_acc_start = reset_accel,
               !.v_cruise = reset_speed, !.a_cruise = reset_accel, !.smoother = <<>>]

\* lines 297-306
disengaged_reset(p, CS, starting, CP) ==
  LET a_ego == Min2(CS.aEgo, 0)
      reset_speed == IF starting THEN MIN_CAN_SPEED ELSE CS.vEgo
      reset_accel == IF starting THEN CP.startAccel ELSE a_ego
  IN [p EXCEPT !.v_acc = reset_speed, !.a_acc = reset_accel,
               !.v_acc_start = reset_speed, !.a_acc_start = reset_accel,
               !.v_cruise = reset_speed, !.a_cruise = reset_accel, !.smoother = <<>>]

\* lines 284-295: the cruise solution of an engaged cycle
cruise_solution(p, a_start, sm, v_cruise_setpoint, cl) ==
  [p EXCEPT !.a_acc_start = a_start,
            !.v_cruise = PyMax2(sm.v, 0),
            !.a_cruise = sm.a,
            !.smoother = <<[a_min |-> cl.accel_limits[1], a_max |-> cl.accel_limits[2],
                            v_target |-> v_cruise_setpoint]>>]

engaged(in) == in.longControlState \in {"pid", "stopping"}

\* lines 232-306
cruise_update(p, c, in, v_cruise_setpoint, cl) ==
  IF engaged(in)
  THEN cruise_solution(p, IF cl.ahead THEN cl.required_decel ELSE p.a_acc_start,
                       speed_smoother(p.v_acc_start,
                                      IF cl.ahead THEN cl.required_decel ELSE p.a_acc_start,
                                      v_cruise_setpoint, cl.accel_limits[2], cl.accel_limits[1],
                                      cl.jerk_limits[2], cl.jerk_limits[1], in.smooth),
                       v_cruise_setpoint, cl)
  ELSE disengaged_reset(p, in.CS, in.longControlState = "starting", c.CP)

fcw_despite_brake(fired, brakePressed, fcw_enabled, long_control_state) ==
  fired /\ (fcw_enabled \/ long_control_state # "off")

\* lines 321-324 and 370: the published fcw, from what fcw_checker.update
\* returned (fired)
fcw_of(fired, brakePressed, fcw_enabled, long_control_state) ==
  (fired /\ ~brakePressed) /\ (fcw_enabled \/ long_control_state # "off")

\* lines 334-373: the plan message
plan_message(m1, p, c, in, lim, decel_for_turn) ==
  [vCruise |-> p.v_cruise, aCruise |-> p.a_cruise,
   vStart |-> p.v_acc_start, aStart |-> p.a_acc_start,
   vTarget |-> p.v_acc, aTarget |-> p.a_acc,
   vTargetFuture |-> p.v_acc_future,
   hasLead |-> m1.prev_lead_status,
   hasrightLaneDepart |-> in.PP.r_poly3 > -11000 /\ ~in.CS.rightBlinker,
   hasleftLaneDepart |-> in.PP.l_poly3 < 10500 /\ ~in.CS.leftBlinker,
   longitudinalPlanSource |-> p.longitudinalPlanSource,
   vCurvature |-> lim.v_curvature,
   decelForTurn |-> decel_for_turn
                    \/ lim.v_speedlimit_ahead < Min2(lim.v_speedlimit, in.CS.vEgo + 10000),
   mapValid |-> TRUE,
   radarValid |-> ~(in.radar_age > 5000 \/ "fault" \in in.radarErrors),
   radarCommIssue |-> "commIssue" \in in.radarErrors,
   fcw |-> fcw_of(in.fcw_fired, in.CS.brakePressed, c.fcw_enabled, in.longControlState)]

\* lines 334-380 for the planner p after choose_solution
update_publish(m1, m2, p, pln, c, in, lim, decel_for_turn) ==
  [mpc1 |-> m1, mpc2 |-> m2, pl |-> advance(p),
   plan |-> [sent |-> pln.sent + 1,
             msg |-> plan_message(m1, p, c, in, lim, decel_for_turn)]]

reset_lead_on_either(m1, m2) == m1.new_lead \/ m2.new_lead

\* lines 317-318: whether fcw_checker.reset_lead is called before the checker's
\* update, for the two instances after their update
reset_lead(m1, m2) == m1.new_lead

\* lines 314-380 for the two instances after their update
update_choose(m1, m2, p, pln, c, in, lim, decel_for_turn, v_cruise_setpoint) ==
  update_publish(m1, m2,
                 [choose_solution(p, m1, m2, v_cruise_setpoint, engaged(in), c.dict_order)
                    EXCEPT !.reset_lead = IF reset_lead(m1, m2) THEN 1 ELSE 0,
                           !.v_cruise_setpoint = v_cruise_setpoint],
                 pln, c, in, lim, decel_for_turn)

update_of_shared_solver(ms, i, in) ==
  [ms EXCEPT ![i] = LongitudinalMpc_update([ms[i] EXCEPT !.last_cost = ms[3 - i].last_cost],
                                           in.CS,
                                           IF i = 1 THEN in.lead_1 ELSE in.lead_2,
                                           IF i = 1 THEN in.ph1 ELSE in.ph2,
                                           IF i = 1 THEN in.sol1 ELSE in.sol2,
                                           in.cur_time)]

\* line 311 (i = 1) or line 312 (i = 2) on the planner's pair of instances ms
update_of(ms, i, in) ==
  [ms EXCEPT ![i] = LongitudinalMpc_update(ms[i], in.CS,
                                           IF i = 1 THEN in.lead_1 ELSE in.lead_2,
                                           IF i = 1 THEN in.ph1 ELSE in.ph2,
                                           IF i = 1 THEN in.sol1 ELSE in.sol2,
                                           in.cur_time)]

\* the two updates one after the other, the instance order[1] first
update_both(ms, order, in) == update_of(update_of(ms, order[1], in), order[2], in)

\* lines 314-380 for the pair as seeded (ms) and as updated (r)
update_updated(r, ms, p, pln, c, in, lim, decel_for_turn, v_cruise_setpoint) ==
  update_choose(r[1], r[2], [p EXCEPT !.seeded = ms], pln, c, in, lim, decel_for_turn,
                v_cruise_setpoint)

\* lines 311-380 for the pair as seeded: mpc1.update, then mpc2.update
update_seeded(ms, p, pln, c, in, lim, decel_for_turn, v_cruise_setpoint) ==
  update_updated(update_both(ms, <<1, 2>>, in), ms, p, pln, c, in, lim, decel_for_turn,
                 v_cruise_setpoint)

\* lines 308-380 for the planner p after the cruise solution
update_mpcs(m1, m2, p, pln, c, in, lim, decel_for_turn, v_cruise_setpoint) ==
  update_seeded(<<seed_mpcs(m1, p, in.CS), seed_mpcs(m2, p, in.CS)>>, p, pln, c, in, lim,
                decel_for_turn, v_cruise_setpoint)

\* lines 232-380 for the limits cl; a ZeroDivisionError at line 270 ends the
\* call before anything is sent
update_cruise(m1, m2, p, pln, c, in, lim, decel_for_turn, v_cruise_setpoint, cl) ==
  IF engaged(in) /\ cl.zero_division
  THEN [mpc1 |-> m1, mpc2 |-> m2, pl |-> [p EXCEPT !.aborted = TRUE], plan |-> pln]
  ELSE update_mpcs(m1, m2, cruise_update(p, c, in, v_cruise_setpoint, cl), pln, c, in, lim,
                   decel_for_turn, v_cruise_setpoint)

setpoint_of_driver(v_cruise_setpoint, lim) == v_cruise_setpoint

\* line 229
setpoint_of(v_cruise_setpoint, lim) ==
  Min2(Min2(v_cruise_setpoint, lim.v_curvature), Min2(lim.v_speedlimit, lim.v_speedlimit_ahead))

\* lines 228-380 for the map ceilings lim
update_limited(m1, m2, p, pln, c, in, lim, decel_for_turn) ==
  update_cruise(m1, m2, p, pln, c, in, lim, decel_for_turn,
                setpoint_of((in.vCruise * 100000) \div 36, lim),
                cruise_limits(p, in, lim, decel_for_turn, c.CP))

limits_of_enforced(c, in) ==
  map_limits(in.CS.vEgo, in.CS.gasbuttonstatus, in.map, c.SpeedLimitOffset)

\* lines 171-223: map_valid is True, so the ceilings depend on LimitSetSpeed
limits_of(c, in) ==
  IF c.LimitSetSpeed
  THEN map_limits(in.CS.vEgo, in.CS.gasbuttonstatus, in.map, c.SpeedLimitOffset)
  ELSE NoMapLimits(in.CS.gasbuttonstatus)

update_mapped(m1, m2, p, pln, c, in, lim) ==
  update_limited(m1, m2, p, pln, c, in, lim,
                 decel_for_turn_of(lim.v_curvature, (in.vCruise * 100000) \div 36,
                                   lim.v_speedlimit, in.CS.vEgo))

\* Planner.update: the two MPC instances, the planner and the plan message
\* after one call; in holds what the call reads from its arguments and from
\* its collaborators (phantom, optimizer, smoother, collision checker, clock)
Planner_update(m1, m2, p, pln, c, in) ==
  update_mapped(m1, m2,
                [p EXCEPT !.lastlat_Control = IF in.latControl # <<>> THEN in.latControl ELSE @,
                          !.carried = [longitudinalPlanSource |-> p.longitudinalPlanSource,
                                       v_acc_start |-> p.v_acc_start,
                                       a_acc_start |-> p.a_acc_start,
                                       aStart |-> pln.msg.aStart,
                                       aTarget |-> pln.msg.aTarget]],
                pln, c, in, limits_of(c, in))

----------------------------------------------------------------------------
(* Inputs *)

MaxCycles == 2

\* SpecCarry: engaged, not engaged, engaged again
MaxCarry == 3

\* SpecCarData: the number of lead samples save_car_data is given; the traffic
\* buffer takes one in twenty, so its 182nd entry arrives with sample 3641
MaxSamples == 3700

Lead(dRel, vLead, aLeadK) ==
  [status |-> TRUE, dRel |-> dRel, vLead |-> vLead, vLeadK |-> vLead, aLeadK |-> aLeadK,
   aLeadTau |-> LEAD_ACCEL_TAU]

NoLead ==
  [status |-> FALSE, dRel |-> 0, vLead |-> 0, vLeadK |-> 0, aLeadK |-> 0,
   aLeadTau |-> LEAD_ACCEL_TAU]

NoPhantom == [status |-> FALSE, speed |-> 0, lost_connection |-> FALSE]

NoMap ==
  [speedLimitValid |-> FALSE, speedLimit |-> 0, speedLimitAheadValid |-> FALSE,
   speedLimitAhead |-> 0, speedLimitAheadDistance |-> 0, curvatureValid |-> FALSE,
   curvature |-> 0, distToTurn |-> 9990000, mapValid |-> FALSE]

\* a cycle at 20 m/s, controller off, nothing around
BaseInput ==
  [CS |-> [vEgo |-> 200000, aEgo |-> 0, leftBlinker |-> FALSE, rightBlinker |-> FALSE,
           brakePressed |-> FALSE, gasbuttonstatus |-> 0, steeringAngle |-> 0],
   longControlState |-> "off", vCruise |-> 108, forceDecel |-> FALSE,
   lead_1 |-> NoLead, lead_2 |-> NoLead, radarErrors |-> {}, radar_age |-> 0,
   map_age |-> 0, map |-> NoMap, latControl |-> <<>>,
   PP |-> [r_poly3 |-> -18000, l_poly3 |-> 18000],
   dt |-> 500, cur_time |-> 1000000,
   ph1 |-> NoPhantom, ph2 |-> NoPhantom,
   sol1 |-> Trajectory(250000, 1000, 250000), sol2 |-> Trajectory(250000, 1000, 250000),
   smooth |-> [v |-> 180000, a |-> 3000],
   fcw_fired |-> FALSE,
   seed |-> [v |-> 200000, a |-> 0],
   \* what the call before this one was given
   prev |-> [longControlState |-> "none", vEgo |-> 0, aEgo |-> 0, leads |-> FALSE]]

BaseCP == [startAccel |-> 5000, steerRatio |-> 150, steerRatio_wheelbase |-> 405,
           brakefactor |-> 100]

BaseConfig ==
  [following_distance |-> <<>>, LimitSetSpeed |-> FALSE, SpeedLimitOffset |-> 0,
   fcw_enabled |-> FALSE, dict_order |-> <<"cruise", "mpc1", "mpc2">>, CP |-> BaseCP]

\* optimizer answers: a plan faster than cruise, a slower one, and the faults
SolFast == Trajectory(250000, 1000, 250000)

SolSlow == Trajectory(150000, -5000, 140000)

SolNaN == Trajectory(NaN, NaN, NaN)

SolNaNMid == WithVelocity(SolSlow, 6, NaN)

SolNaNAccel == Trajectory(150000, NaN, 140000)

SolBackwards == WithVelocity(Trajectory(1000, -5000, 0), 5, -200)

SolCrash == WithLeadPos(SolSlow, 8, -600000)

\* SpecPlanner: arbitration between the smoother and the two MPCs
PlannerInputs ==
  { [BaseInput EXCEPT !.longControlState = lcs, !.CS.aEgo = a,
                      !.lead_1 = s1[1], !.sol1 = s1[2],
                      !.lead_2 = s2[1], !.sol2 = s2[2]] :
      lcs \in {"off", "starting", "pid"},
      a \in {-10000, 5000},
      s1 \in {<<NoLead, SolFast>>, <<Lead(400000, 180000, 0), SolSlow>>,
              <<Lead(400000, 180000, 0), SolNaN>>},
      s2 \in {<<NoLead, Trajectory(120000, -8000, 110000)>>,
              <<Lead(600000, 180000, 0), SolSlow>>} }

PlannerConfigs ==
  { [BaseConfig EXCEPT !.dict_order = o] :
      o \in {<<"cruise", "mpc1", "mpc2">>, <<"mpc2", "mpc1", "cruise">>} }

\* SpecMap: speed limits and curvature from the map, no lead
MapInputs ==
  { [BaseInput EXCEPT !.longControlState = lcs, !.vCruise = kph,
                      !.map.curvatureValid = cv[1], !.map.curvature = cv[2],
                      !.map.speedLimitValid = sl[1], !.map.speedLimit = sl[2],
                      !.map.speedLimitAheadValid = ah[1], !.map.speedLimitAhead = ah[2],
                      !.map.speedLimitAheadDistance = ah[3]] :
      lcs \in {"off", "pid", "stopping"},
      kph \in {36, 108},
      cv \in {<<FALSE, 0>>, <<TRUE, 66667>>, <<TRUE, -10000>>},
      sl \in {<<FALSE, 0>>, <<TRUE, 138889>>},
      ah \in {<<FALSE, 0, 0>>, <<TRUE, 83333, 0>>, <<TRUE, 83333, 1000000>>} }

MapConfigs == { [BaseConfig EXCEPT !.LimitSetSpeed = b] : b \in BOOLEAN }

\* SpecFcw: the collision-warning checker's verdict, the brake and the switch
\* that lets the warning through while the controller is off
FcwInputs ==
  { [BaseInput EXCEPT !.longControlState = lcs, !.fcw_fired = f,
                      !.CS.brakePressed = b, !.lead_1 = s1[1], !.sol1 = s1[2]] :
      lcs \in {"off", "pid"},
      f \in BOOLEAN,
      b \in BOOLEAN,
      s1 \in {<<NoLead, SolFast>>, <<Lead(400000, 180000, 0), SolSlow>>} }

FcwConfigs == { [BaseConfig EXCEPT !.fcw_enabled = b] : b \in BOOLEAN }

\* SpecRadar: the age of the radar message and the errors it reports, with
\* and without a lead in it
RadarInputs ==
  { [BaseInput EXCEPT !.longControlState = lcs, !.radar_age = r[1], !.radarErrors = r[2],
                      !.lead_1 = s1[1], !.sol1 = s1[2]] :
      lcs \in {"off", "pid"},
      r \in {<<0, {}>>, <<6000, {}>>, <<0, {"fault"}>>, <<0, {"commIssue"}>>},
      s1 \in {<<NoLead, SolFast>>, <<Lead(400000, 180000, 0), SolSlow>>} }

\* SpecStop: the car at rest or creeping, braking or not, in every state of
\* the controller; the smoother accelerates or holds a deceleration
StopInputs ==
  { [BaseInput EXCEPT !.longControlState = lcs, !.CS.vEgo = v, !.CS.aEgo = a,
                      !.smooth = sm] :
      lcs \in {"off", "starting", "pid", "stopping"},
      v \in {0, 3000},
      a \in {-10000, 5000},
      sm \in {[a |-> 3000, v |-> 180000], [a |-> -5000, v |-> 0]} }

\* SpecTurn: a curve ahead at two distances and two ego speeds, with and
\* without the driver-monitoring request to slow down
TurnInputs ==
  { [BaseInput EXCEPT !.longControlState = lcs, !.CS.vEgo = v, !.forceDecel = f,
                      !.map.curvatureValid = cv[1], !.map.curvature = cv[2],
                      !.map.distToTurn = d] :
      lcs \in {"off", "pid"},
      v \in {65000, 200000},
      f \in BOOLEAN,
      cv \in {<<FALSE, 0>>, <<TRUE, 66667>>},
      d \in {1000000, 9990000} }

\* SpecAhead: a lower speed limit ahead at two distances, the ego speed above
\* and below it, with and without a lead to take the plan from cruise
AheadInputs ==
  { [BaseInput EXCEPT !.longControlState = lcs, !.CS.vEgo = v,
                      !.map.speedLimitAheadValid = ah[1], !.map.speedLimitAhead = ah[2],
                      !.map.speedLimitAheadDistance = ah[3],
                      !.lead_1 = s1[1], !.sol1 = s1[2]] :
      lcs \in {"off", "pid"},
      v \in {70000, 200000},
      ah \in {<<FALSE, 0, 0>>, <<TRUE, 83333, 200000>>, <<TRUE, 83333, 1000000>>},
      s1 \in {<<NoLead, SolFast>>, <<Lead(400000, 180000, 0), SolSlow>>} }

\* SpecCarry: engaging and disengaging with and without a lead, 100 m before
\* a lower limit or with no limit ahead
CarryInputs ==
  { [BaseInput EXCEPT !.longControlState = lcs,
                      !.map.speedLimitAheadValid = ah[1], !.map.speedLimitAhead = ah[2],
                      !.map.speedLimitAheadDistance = ah[3],
                      !.lead_1 = s1[1], !.sol1 = s1[2]] :
      lcs \in {"off", "pid"},
      ah \in {<<FALSE, 0, 0>>, <<TRUE, 83333, 1000000>>},
      s1 \in {<<NoLead, SolFast>>, <<Lead(400000, 180000, 0), SolSlow>>} }

\* SpecLog: clean and faulty solves 0.05 s, 5.0 s and 5.05 s after the cycle
\* before
LogInputs ==
  { [BaseInput EXCEPT !.dt = dt, !.lead_1 = l, !.sol1 = sol] :
      dt \in {500, 50000, 50500},
      l \in {NoLead, Lead(400000, 180000, 0)},
      sol \in {SolSlow, SolNaN, SolCrash} }

\* SpecMpc: one MPC instance over several cycles
MpcInputs ==
  { [BaseInput EXCEPT !.lead_1 = l, !.ph1 = ph, !.sol1 = sol,
                      !.seed = [v |-> 195000, a |-> -3000]] :
      l \in {NoLead, Lead(400000, 180000, 0), Lead(425000, 180000, 0),
             Lead(430000, 180000, 0)},
      ph \in {NoPhantom, [status |-> TRUE, speed |-> 0, lost_connection |-> FALSE],
              [status |-> TRUE, speed |-> 50000, lost_connection |-> FALSE]},
      sol \in {SolSlow, SolNaN, SolNaNMid, SolNaNAccel, SolBackwards, SolCrash} }

\* SpecFollow: the inputs of dynamic_follow, get_cost and get_TR
FollowLeads(v) ==
  {NoLead} \cup
  { Lead(d, v + rel, a) :
      d \in {50000, 300000, 1000000},
      rel \in {-160000, -100000, -50000, -20000, -6100, -1000, 0, 10000, 30000},
      a \in {-25000, -5000, 0, 5000, 20000} }

FollowInputs ==
  UNION { { [BaseInput EXCEPT !.CS.vEgo = v, !.CS.leftBlinker = b, !.lead_1 = l] :
              b \in BOOLEAN, l \in FollowLeads(v) } :
          v \in {0, 30000, 44704, 55000, 67056, 67057, 100000, 149370, 200000, 300000,
                 424690, 450000} }

FollowConfigs ==
  { [BaseConfig EXCEPT !.following_distance = f] :
      f \in {<<>>, <<500>>, <<1500>>, <<3000>>} }

\* SpecAccel: the arguments of calc_cruise_accel_limits, every 1 m/s up to
\* 60 m/s in the three drive modes
AccelInputs ==
  { [BaseInput EXCEPT !.CS.vEgo = k * 10000, !.CS.gasbuttonstatus = g] :
      k \in 0..60, g \in 0..2 }

\* SpecCurve: liveMapData.curvature in 1e-6 1/m, radii from 10000 m down
\* to 125 m in steps of 0.0001 1/m, two tight bends and a left-hand one
Curvatures == { 100 * k : k \in 1..80 } \cup {20000, 66667, -3900}

CurveInputs ==
  { [BaseInput EXCEPT !.map.curvatureValid = TRUE, !.map.curvature = k] : k \in Curvatures }

NoProbe == [done |-> FALSE, cost |-> <<0, 0, 0>>]

----------------------------------------------------------------------------
(* The state machine *)

InitWith(Configs, Inputs) ==
  /\ cfg \in Configs
  /\ mpc1 = LongitudinalMpc_init(cfg.following_distance)
  /\ mpc2 = LongitudinalMpc_init(cfg.following_distance)
  /\ pl = Planner_init
  /\ plan = [sent |-> 0, msg |-> NoPlan]
  /\ inp \in Inputs
  /\ probe = NoProbe
  /\ cycle = 0

\* one call of Planner.update with inputs from Inputs, up to n calls
PlannerCycleUpTo(Inputs, n) ==
  /\ cycle < n
  /\ ~pl.aborted
  /\ \E i \in Inputs :
     \E in \in {[i EXCEPT !.cur_time = inp.cur_time + i.dt,
                          !.prev = IF cycle = 0 THEN @
                                   ELSE [longControlState |-> inp.longControlState,
                                         vEgo |-> inp.CS.vEgo, aEgo |-> inp.CS.aEgo,
                                         leads |-> inp.lead_1.status \/ inp.lead_2.status]]} :
     \E r \in {Planner_update(mpc1, mpc2, pl, plan, cfg, in)} :
       /\ mpc1' = r.mpc1
       /\ mpc2' = r.mpc2
       /\ pl' = r.pl
       /\ plan' = r.plan
       /\ inp' = in
  /\ cycle' = cycle + 1
  /\ UNCHANGED <<cfg, probe>>

PlannerCycle(Inputs) == PlannerCycleUpTo(Inputs, MaxCycles)

\* one cycle of one MPC instance as its owner drives it: set_cur_state, update
MpcCycleWith(Inputs) ==
  /\ cycle < MaxCycles
  /\ \E i \in Inputs :
     \E in \in {[i EXCEPT !.cur_time = inp.cur_time + i.dt]} :
          /\ mpc1' = LongitudinalMpc_update(set_cur_state(mpc1, in.seed.v, in.seed.a),
                                            in.CS, in.lead_1, in.ph1, in.sol1, in.cur_time)
          /\ inp' = in
  /\ cycle' = cycle + 1
  /\ UNCHANGED <<mpc2, pl, plan, cfg, probe>>

MpcCycle == MpcCycleWith(MpcInputs)

\* one update of a fresh MPC instance with the inputs drawn initially
FollowCycle ==
  /\ cycle = 0
  /\ mpc1' = LongitudinalMpc_update(set_cur_state(mpc1, inp.seed.v, inp.seed.a),
                                    inp.CS, inp.lead_1, inp.ph1, inp.sol1, inp.cur_time)
  /\ cycle' = 1
  /\ UNCHANGED <<mpc2, pl, plan, cfg, inp, probe>>

\* get_cost called on the instance for the three anchor time gaps
GetCostAnchors ==
  /\ cycle = 1
  /\ ~probe.done
  /\ probe' = [done |-> TRUE,
               cost |-> <<get_cost(mpc1, 900), get_cost(mpc1, 1800), get_cost(mpc1, 2700)>>]
  /\ UNCHANGED <<mpc1, mpc2, pl, plan, cfg, inp, cycle>>

Init == InitWith(PlannerConfigs, {BaseInput})

Next == PlannerCycle(PlannerInputs)

Spec == Init /\ [][Next]_vars

InitMap == InitWith(MapConfigs, {BaseInput})

NextMap == PlannerCycle(MapInputs)

SpecMap == InitMap /\ [][NextMap]_vars

InitFcw == InitWith(FcwConfigs, {BaseInput})

NextFcw == PlannerCycle(FcwInputs)

SpecFcw == InitFcw /\ [][NextFcw]_vars

InitRadar == InitWith(PlannerConfigs, {BaseInput})

NextRadar == PlannerCycle(RadarInputs)

SpecRadar == InitRadar /\ [][NextRadar]_vars

InitStop == InitWith({BaseConfig}, {BaseInput})

NextStop == PlannerCycle(StopInputs)

SpecStop == InitStop /\ [][NextStop]_vars

InitTurn == InitWith(MapConfigs, {BaseInput})

NextTurn == PlannerCycle(TurnInputs)

SpecTurn == InitTurn /\ [][NextTurn]_vars

InitCarry == InitWith(MapConfigs, {BaseInput})

NextCarry == PlannerCycleUpTo(CarryInputs, MaxCarry)

SpecCarry == InitCarry /\ [][NextCarry]_vars

InitAhead == InitWith(MapConfigs, {BaseInput})

NextAhead == PlannerCycle(AheadInputs)

SpecAhead == InitAhead /\ [][NextAhead]_vars

InitMpc == InitWith({BaseConfig}, {BaseInput})

NextMpc == MpcCycle

SpecMpc == InitMpc /\ [][NextMpc]_vars

\* calc_cruise_accel_limits called for the ego speed and drive mode drawn
\* initially, not following and following
CalcAccelLimits ==
  /\ ~probe.done
  /\ probe' = [done |-> TRUE, cost |-> <<0, 0, 0>>,
               limits |-> [following \in BOOLEAN |->
                             calc_cruise_accel_limits(inp.CS.vEgo, following,
                                                      inp.CS.gasbuttonstatus)]]
  /\ UNCHANGED <<mpc1, mpc2, pl, plan, cfg, inp, cycle>>

\* the curvature ceiling of lines 210-223 for the curvature drawn initially
\* and, beside it, for every other curvature of the set
CalcCurvature ==
  /\ ~probe.done
  /\ probe' = [done |-> TRUE, cost |-> <<0, 0, 0>>,
               v_curvature |-> [k \in Curvatures |->
                                  limits_of(cfg, [inp EXCEPT !.map.curvature = k]).v_curvature]]
  /\ UNCHANGED <<mpc1, mpc2, pl, plan, cfg, inp, cycle>>

InitCurve == InitWith({ c \in MapConfigs : c.LimitSetSpeed }, CurveInputs)

NextCurve == CalcCurvature

SpecCurve == InitCurve /\ [][NextCurve]_vars

InitAccel == InitWith({BaseConfig}, AccelInputs)

NextAccel == CalcAccelLimits

SpecAccel == InitAccel /\ [][NextAccel]_vars

\* one call of save_car_data on the instance, with a lead or without; the
\* lead's speed is the ordinal of the sample (in 1e-4 m/s), so that the
\* entries of the buffers tell which samples were kept; cycle counts samples
SaveCarData ==
  /\ cycle < MaxSamples
  /\ \E lead \in {NoLeadData,
                   [present |-> TRUE, v_lead |-> cycle + 1, x_lead |-> 500000, a_lead |-> 0]} :
       /\ mpc1' = save_car_data([mpc1 EXCEPT !.lead_data = lead])
       /\ cycle' = IF lead.present THEN cycle + 1 ELSE cycle
  /\ UNCHANGED <<mpc2, pl, plan, cfg, inp, probe>>

InitCarData == InitWith({BaseConfig}, {BaseInput})

NextCarData == SaveCarData

SpecCarData == InitCarData /\ [][NextCarData]_vars

InitLog == InitWith({BaseConfig}, {BaseInput})

NextLog == MpcCycleWith(LogInputs)

SpecLog == InitLog /\ [][NextLog]_vars

InitFollow == InitWith(FollowConfigs, FollowInputs)

NextFollow == FollowCycle \/ GetCostAnchors

SpecFollow == InitFollow /\ [][NextFollow]_vars

----------------------------------------------------------------------------
(* Properties *)

\* C1: in every cycle, whatever the ego speed, the lead, the turn signals and
\* the configured following distance, the time gap that get_TR returns and
\* update hands to run_mpc lies in [0.9 s, 2.7 s].
C1_TR_in_range ==
  cycle >= 1 =>
    /\ mpc1.calls.run_mpc = 1
    /\ mpc1.calls.run_TR = mpc1.TR
    /\ 900 <= mpc1.TR /\ mpc1.TR <= 2700

\* a configured following distance of 3.0 s handed to the optimizer as 2.7 s
C1_Witness ==
  /\ cycle = 1
  /\ cfg.following_distance = <<3000>>
  /\ mpc1.lead_data.present
  /\ mpc1.calls.run_TR = 2700

\* C2 as stated: get_cost(0.9) > get_cost(1.8) > get_cost(2.7) for every
\* ego speed and lead.
C2_Original ==
  probe.done => probe.cost[1] > probe.cost[2] /\ probe.cost[2] > probe.cost[3]

\* C2: without a tracked lead, or at ego speed 0, the costs at the anchors
\* 0.9, 1.8, 2.7 s are 1.0 > 0.1 > 0.05; with a tracked lead and a nonzero ego
\* speed the measured gap replaces every anchor farther than 0.25 s from it,
\* so at least two of the three costs are equal.
C2_Amended ==
  probe.done =>
    /\ (~mpc1.lead_data.present \/ mpc1.v_ego = 0) => probe.cost = <<100000, 10000, 5000>>
    /\ (mpc1.lead_data.present /\ mpc1.v_ego # 0) =>
         \/ probe.cost[1] = probe.cost[2]
         \/ probe.cost[2] = probe.cost[3]
         \/ probe.cost[1] = probe.cost[3]

\* a lead 5 m ahead at 3 m/s: the anchors 0.9 and 2.7 both cost what the
\* measured gap costs, more than the anchor 1.8
C2_Witness ==
  /\ probe.done
  /\ mpc1.lead_data.present
  /\ mpc1.v_ego = 30000
  /\ probe.cost[1] = probe.cost[3]
  /\ probe.cost[2] < probe.cost[3]

\* C3 as stated: after a solver result with a NaN velocity in cycle k the
\* instance is left with prev_lead_status false, and the solver of cycle k+1
\* is run from (ego speed of cycle k, 0.0).
C3_Original ==
  /\ (cycle >= 1 /\ nans(mpc1.mpc_solution)) => ~mpc1.prev_lead_status
  /\ (cycle >= 2 /\ mpc1.calls.entry_nans) =>
       /\ mpc1.calls.run_state.v_ego = inp.prev.vEgo
       /\ mpc1.calls.run_state.a_ego = 0

\* C3: a solver result with a NaN velocity leaves the instance, at the end of
\* that cycle, with the stored seed (ego speed, 0.0) and prev_lead_status
\* false; the solver of the next cycle is run from the planner's recurrence
\* state, which that cycle publishes as (vStart, aStart).
C3_Amended ==
  cycle >= 1 =>
    \A m \in {mpc1, mpc2} :
      /\ nans(m.mpc_solution) =>
           /\ m.cur_state.v_ego = inp.CS.vEgo
           /\ m.cur_state.a_ego = 0
           /\ ~m.prev_lead_status
      /\ m.calls.entry_nans =>
           /\ m.calls.run_state.v_ego = plan.msg.vStart
           /\ m.calls.run_state.a_ego = plan.msg.aStart

\* the cycle after a NaN result, its solver run from something else than the
\* ego speed
C3_Witness ==
  /\ cycle = 2
  /\ mpc1.calls.entry_nans
  /\ mpc1.calls.run_mpc = 1
  /\ mpc1.calls.run_state.v_ego # inp.CS.vEgo

\* C4 as stated: in an engaged cycle the published target is the slowest of
\* the cruise solution and both MPC solutions.
C4_Original ==
  (cycle >= 1 /\ engaged(inp)) =>
    LET v == [k \in {"cruise", "mpc1", "mpc2"} |->
                IF k = "cruise" THEN pl.v_cruise
                ELSE IF k = "mpc1" THEN mpc1.v_mpc ELSE mpc2.v_mpc]
        a == [k \in {"cruise", "mpc1", "mpc2"} |->
                IF k = "cruise" THEN pl.a_cruise
                ELSE IF k = "mpc1" THEN mpc1.a_mpc ELSE mpc2.a_mpc]
        src == plan.msg.longitudinalPlanSource
    IN /\ \A k \in {"cruise", "mpc1", "mpc2"} : ~FLt(v[k], v[src])
       /\ plan.msg.vTarget = v[src]
       /\ plan.msg.aTarget = a[src]

\* C4: in an engaged cycle the published vTarget is the lowest velocity among
\* the cruise solution and the solutions of the MPC instances that track a
\* lead after their update (prev_lead_status); aTarget is the acceleration of
\* that candidate and longitudinalPlanSource names it.
C4_Amended ==
  (cycle >= 1 /\ engaged(inp)) =>
    LET cand == {"cruise"} \cup {k \in {"mpc1"} : mpc1.prev_lead_status}
                           \cup {k \in {"mpc2"} : mpc2.prev_lead_status}
        v == [k \in {"cruise", "mpc1", "mpc2"} |->
                IF k = "cruise" THEN pl.v_cruise
                ELSE IF k = "mpc1" THEN mpc1.v_mpc ELSE mpc2.v_mpc]
        a == [k \in {"cruise", "mpc1", "mpc2"} |->
                IF k = "cruise" THEN pl.a_cruise
                ELSE IF k = "mpc1" THEN mpc1.a_mpc ELSE mpc2.a_mpc]
        src == plan.msg.longitudinalPlanSource
    IN /\ src \in cand
       /\ \A k \in cand : ~FLt(v[k], v[src])
       /\ plan.msg.vTarget = v[src]
       /\ plan.msg.aTarget = a[src]

\* an engaged cycle won by MPC 1 although MPC 2, without a lead, is slower
C4_Witness ==
  /\ cycle >= 1
  /\ engaged(inp)
  /\ plan.msg.longitudinalPlanSource = "mpc1"
  /\ ~mpc2.prev_lead_status
  /\ mpc2.v_mpc < mpc1.v_mpc
  /\ plan.msg.vTarget = mpc1.v_mpc

\* C5 as stated: every call of Planner.update sends one plan message.
C5_Original == plan.sent = cycle

\* C6: a lead reported to an instance outside phantom mode, the instance
\* having entered the cycle with prev_lead_status false, makes update call
\* init_with_simulation once, set new_lead, and run the solver with
\* prev_lead_status true.
C6_Cold_start ==
  (cycle >= 1 /\ mpc1.calls.lead /\ ~mpc1.calls.entry_prev_lead_status) =>
    /\ mpc1.calls.init_with_simulation = 1
    /\ mpc1.new_lead
    /\ mpc1.calls.run_mpc = 1
    /\ mpc1.calls.run_prev_lead_status

\* a lead at the distance it had before the instance lost it
C6_Witness ==
  /\ cycle = 2
  /\ mpc1.calls.lead
  /\ ~mpc1.calls.entry_prev_lead_status
  /\ mpc1.prev_lead_x = inp.lead_1.dRel
  /\ mpc1.calls.sim_v = inp.CS.vEgo
  /\ mpc1.new_lead

\* C7 as stated: an instance that never had a lead and never was in phantom
\* mode runs the solver with the lead 50 m ahead at ego speed + 10 m/s and
\* prev_lead_status false, and exposes a finite a_mpc.
C7_Original ==
  (cycle >= 1 /\ ~mpc1.ever_lead /\ ~mpc1.ever_phantom) =>
    /\ mpc1.calls.run_state.x_l = 500000
    /\ mpc1.calls.run_state.v_l = inp.CS.vEgo + 100000
    /\ ~mpc1.calls.run_prev_lead_status
    /\ ~mpc1.prev_lead_status
    /\ ~IsNaN(mpc1.a_mpc)

\* the cycle that ran last was engaged and followed a disengaged one, the
\* ego speed the same in both and no lead reported in either
OffThenOn ==
  /\ cycle >= 2
  /\ inp.prev.longControlState \in {"off", "starting"}
  /\ engaged(inp)
  /\ inp.prev.vEgo = inp.CS.vEgo
  /\ ~inp.prev.leads
  /\ ~inp.lead_1.status /\ ~inp.lead_2.status

ClosingLead ==
  /\ cycle >= 1
  /\ cfg.following_distance = <<>>
  /\ mpc1.calls.lead
  /\ mpc1.v_ego > 67056
  /\ mpc1.lead_data.v_lead < mpc1.v_ego
  /\ mpc1.lead_data.a_lead = 0
  /\ ~mpc1.car_state.leftBlinker /\ ~mpc1.car_state.rightBlinker

\* C9 as stated: for a closing lead the time gap is lower than the base
\* curve's value at the ego speed.
C9_Original ==
  ClosingLead => mpc1.TR * 100 < interp(mpc1.v_ego, x_vel, y_mod)

\* C9: for a closing lead the time gap is never lower than the base curve's
\* value (rounded to 1 ms) and is higher than it once the lead is slower by
\* 0.61 m/s or more.
C9_Amended ==
  ClosingLead =>
    /\ mpc1.TR >= Round3(interp(mpc1.v_ego, x_vel, y_mod))
    /\ mpc1.lead_data.v_lead - mpc1.v_ego <= -6100 =>
         mpc1.TR > Round3(interp(mpc1.v_ego, x_vel, y_mod))

\* ego at 20 m/s, the lead 2 m/s slower: the gap is above the base value
C9_Witness ==
  /\ ClosingLead
  /\ mpc1.v_ego = 200000
  /\ mpc1.lead_data.v_lead = 180000
  /\ mpc1.TR > Round3(interp(mpc1.v_ego, x_vel, y_mod))

\* C10 as stated: decelForTurn is published true whenever the curvature
\* speed is below the driver's setpoint and below ego speed + 1 m/s.
C10_Original ==
  (cycle >= 1 /\ ~pl.aborted
   /\ limits_of(cfg, inp).v_curvature < (inp.vCruise * 100000) \div 36
   /\ limits_of(cfg, inp).v_curvature < inp.CS.vEgo + 10000) =>
    plan.msg.decelForTurn

\* C10: decelForTurn is published true exactly when the curvature speed is
\* below the driver's setpoint, the current speed limit and ego speed + 1 m/s,
\* or the ahead speed limit is below the current speed limit and ego speed
\* + 1 m/s.
C10_Amended ==
  (cycle >= 1 /\ ~pl.aborted) =>
    LET lim == limits_of(cfg, inp)
    IN plan.msg.decelForTurn <=>
         \/ /\ lim.v_curvature < (inp.vCruise * 100000) \div 36
            /\ lim.v_curvature < lim.v_speedlimit
            /\ lim.v_curvature < inp.CS.vEgo + 10000
         \/ /\ lim.v_speedlimit_ahead < lim.v_speedlimit
            /\ lim.v_speedlimit_ahead < inp.CS.vEgo + 10000

\* a curve slower than the setpoint and the ego speed but not slower than the
\* speed limit: no deceleration for the turn is published
C10_Witness ==
  /\ cycle >= 1
  /\ ~pl.aborted
  /\ cfg.LimitSetSpeed
  /\ inp.map.speedLimitValid
  /\ plan.msg.vCurvature < inp.CS.vEgo
  /\ plan.msg.vCurvature < (inp.vCruise * 100000) \div 36
  /\ plan.msg.decelForTurn = (plan.msg.vCurvature < inp.map.speedLimit)
  /\ ~plan.msg.decelForTurn

\* C11 as stated: with the map's curvature valid and speed-limit enforcement
\* on, a curve of radius r <= 250 m is published with
\* vCurvature^2 = (3.0 - (13/2500) r) r, to the model's 0.01 m/s.
C11_Original ==
  (cycle >= 1 /\ ~pl.aborted /\ cfg.LimitSetSpeed /\ inp.map.curvatureValid
   /\ 100000000 \div Max2(100, Abs(inp.map.curvature)) <= 25000) =>
    LET r == 100000000 \div Max2(100, Abs(inp.map.curvature))
        v == ISqrt(((30000 - (52 * r) \div 100) * r) \div 100)
    IN Abs(plan.msg.vCurvature \div 100 - v) <= 1

\* C12 as stated: in every cycle the published vTargetFuture is the least of
\* the two MPC future velocities and the driver's setpoint, the setpoint taken
\* before the map's ceilings.
C12_Original ==
  (cycle >= 1 /\ ~pl.aborted) =>
    plan.msg.vTargetFuture =
      PyMin(<<mpc1.v_mpc_future, mpc2.v_mpc_future, (inp.vCruise * 100000) \div 36>>)

\* C12: in every cycle, engaged or not, the published vTargetFuture is
\* Python's min of MPC 1's future velocity, MPC 2's future velocity and the
\* fused setpoint: the driver's setpoint lowered to the curvature speed, the
\* speed limit and the ahead speed limit when enforcement is on.
C12_Amended ==
  (cycle >= 1 /\ ~pl.aborted) =>
    LET lim == limits_of(cfg, inp)
        fused == Min2(Min2((inp.vCruise * 100000) \div 36, lim.v_curvature),
                      Min2(lim.v_speedlimit, lim.v_speedlimit_ahead))
    IN plan.msg.vTargetFuture = PyMin(<<mpc1.v_mpc_future, mpc2.v_mpc_future, fused>>)

\* a disengaged cycle under a speed limit below the driver's setpoint and
\* below both MPC readouts
C12_Witness ==
  /\ cycle >= 1
  /\ ~pl.aborted
  /\ ~engaged(inp)
  /\ cfg.LimitSetSpeed
  /\ inp.map.speedLimitValid
  /\ plan.msg.vTargetFuture = inp.map.speedLimit
  /\ plan.msg.vTargetFuture < mpc1.v_mpc_future
  /\ plan.msg.vTargetFuture < (inp.vCruise * 100000) \div 36

\* C13 as stated: in every cycle in which either MPC instance reports
\* new_lead, the collision-warning checker is re-armed before it is evaluated.
C13_Original ==
  (cycle >= 1 /\ ~pl.aborted /\ (mpc1.new_lead \/ mpc2.new_lead)) => pl.reset_lead = 1

\* C13: the collision-warning checker is re-armed before it is evaluated in
\* exactly the cycles in which MPC 1 reports new_lead; MPC 2's new_lead does
\* not re-arm it.
C13_Amended ==
  (cycle >= 1 /\ ~pl.aborted) => (pl.reset_lead = 1 <=> mpc1.new_lead)

\* both instances pick up a lead in the cycle and the checker is re-armed
C13_Witness ==
  cycle >= 1 /\ ~pl.aborted /\ mpc1.new_lead /\ mpc2.new_lead /\ pl.reset_lead = 1

\* C14: the published fcw is true only if the collision-warning checker fired
\* in the cycle, the brake is not pressed, and either fcw_enabled is set or the
\* controller state is not off; with the brake pressed it is false.
C14_Fcw_gated ==
  (cycle >= 1 /\ ~pl.aborted) =>
    /\ plan.msg.fcw => /\ inp.fcw_fired
                       /\ ~inp.CS.brakePressed
                       /\ (cfg.fcw_enabled \/ inp.longControlState # "off")
    /\ inp.CS.brakePressed => ~plan.msg.fcw

\* the checker fired with the brake pressed, the controller engaged and
\* fcw_enabled set, and nothing is published
C14_Witness ==
  /\ cycle >= 1
  /\ inp.fcw_fired
  /\ inp.CS.brakePressed
  /\ cfg.fcw_enabled
  /\ inp.longControlState = "pid"
  /\ ~plan.msg.fcw

\* C15 as stated: in every cycle that is not engaged the speed smoother is not
\* run, the published vStart, vTarget and vCruise equal the ego speed (the
\* minimum start speed in state 'starting') and aStart, aTarget and aCruise
\* equal the ego acceleration (the start acceleration in state 'starting').
C15_Original ==
  (cycle >= 1 /\ ~pl.aborted /\ ~engaged(inp)) =>
    LET starting == inp.longControlState = "starting"
        v == IF starting THEN MIN_CAN_SPEED ELSE inp.CS.vEgo
        a == IF starting THEN cfg.CP.startAccel ELSE inp.CS.aEgo
    IN /\ pl.smoother = <<>>
       /\ plan.msg.vStart = v /\ plan.msg.vTarget = v /\ plan.msg.vCruise = v
       /\ plan.msg.aStart = a /\ plan.msg.aTarget = a /\ plan.msg.aCruise = a

\* C15: in every cycle that is not engaged the speed smoother is not run, the
\* published vStart, vTarget and vCruise equal the ego speed (MIN_CAN_SPEED in
\* state 'starting') and aStart, aTarget and aCruise equal min(aEgo, 0) (the
\* start acceleration in state 'starting').
C15_Amended ==
  (cycle >= 1 /\ ~pl.aborted /\ ~engaged(inp)) =>
    LET starting == inp.longControlState = "starting"
        v == IF starting THEN MIN_CAN_SPEED ELSE inp.CS.vEgo
        a == IF starting THEN cfg.CP.startAccel ELSE Min2(inp.CS.aEgo, 0)
    IN /\ pl.smoother = <<>>
       /\ plan.msg.vStart = v /\ plan.msg.vTarget = v /\ plan.msg.vCruise = v
       /\ plan.msg.aStart = a /\ plan.msg.aTarget = a /\ plan.msg.aCruise = a

\* controller off while the car accelerates, after an engaged cycle: the
\* plan's accelerations are 0, its velocities the ego speed
C15_Witness ==
  /\ cycle >= 2
  /\ inp.prev.longControlState = "pid"
  /\ inp.longControlState = "off"
  /\ inp.CS.aEgo > 0
  /\ plan.msg.aTarget = 0
  /\ plan.msg.aCruise = 0
  /\ plan.msg.vTarget = inp.CS.vEgo
  /\ pl.smoother = <<>>

\* C16 as stated: when the map is flagged invalid or its data is older than
\* 10 s it constrains nothing: the curvature speed stays at the sentinel, the
\* fused setpoint is the driver's setpoint and decelForTurn is not raised.
C16_Original ==
  (cycle >= 1 /\ ~pl.aborted /\ (~inp.map.mapValid \/ inp.map_age >= 100000)) =>
    /\ plan.msg.vCurvature = NO_CURVATURE_SPEED
    /\ pl.v_cruise_setpoint = (inp.vCruise * 100000) \div 36
    /\ ~plan.msg.decelForTurn

\* C17 as stated: with a following distance configured, the time gap get_TR
\* returns is that distance clamped to [0.9 s, 2.7 s] in every cycle, with or
\* without a lead.
C17_Original ==
  (cycle >= 1 /\ cfg.following_distance # <<>>) =>
    mpc1.calls.run_TR = clip(cfg.following_distance[1], 900, 2700)

\* C17: with a following distance configured, the time gap get_TR returns is
\* that distance clamped to [0.9 s, 2.7 s] while the instance holds lead data,
\* whatever the ego speed, the lead's relative speed and acceleration and the
\* turn signals, and 1.8 s while it holds none.
C17_Amended ==
  (cycle >= 1 /\ cfg.following_distance # <<>>) =>
    /\ mpc1.calls.run_TR = mpc1.TR
    /\ mpc1.TR = IF mpc1.lead_data.present
                 THEN clip(cfg.following_distance[1], 900, 2700)
                 ELSE 1800
    /\ mpc1.lead_data.present <=> inp.lead_1.status

\* a configured 0.5 s behind a lead that closes in at speed with a turn signal
\* on, where dynamic_follow would have answered otherwise: 0.9 s
C17_Witness ==
  /\ cycle >= 1
  /\ cfg.following_distance = <<500>>
  /\ inp.lead_1.status
  /\ inp.lead_1.vLead < inp.CS.vEgo
  /\ inp.CS.leftBlinker
  /\ inp.CS.vEgo > 67056
  /\ dynamic_follow(mpc1) # 900
  /\ mpc1.calls.run_TR = 900

C19_Original ==
  (cycle >= 1 /\ ~pl.aborted /\ engaged(inp)
   /\ (inp.radar_age > 5000 \/ "fault" \in inp.radarErrors)) =>
    /\ ~plan.msg.radarValid
    /\ plan.msg.longitudinalPlanSource = "cruise"
    /\ plan.msg.vTarget = plan.msg.vCruise

\* C20: after each solve the instance is reset exactly when the trajectory
\* holds a NaN velocity, or a lead is tracked and the trajectory holds a
\* velocity below -0.01 m/s or a lead position more than 50 m behind the ego
\* position. The reset sets v_mpc to the ego speed, a_mpc to the ego
\* acceleration, the seed to (ego speed, 0) and clears prev_lead_status;
\* otherwise the readouts of the solve, the seed and prev_lead_status stay.
C20_Reset_iff ==
  cycle >= 1 =>
    LET sol == inp.sol1
        tracked == inp.ph1.status \/ inp.lead_1.status
        nan == \E i \in 1..11 : IsNaN(sol.v_ego[i])
        back == \E i \in 1..11 : ~IsNaN(sol.v_ego[i]) /\ sol.v_ego[i] < -100
        crash == \E i \in 1..11 : sol.x_l[i] - sol.x_ego[i] < -500000
    IN IF nan \/ (tracked /\ (back \/ crash))
       THEN /\ mpc1.v_mpc = inp.CS.vEgo
            /\ mpc1.a_mpc = inp.CS.aEgo
            /\ mpc1.cur_state.v_ego = inp.CS.vEgo
            /\ mpc1.cur_state.a_ego = 0
            /\ ~mpc1.prev_lead_status
       ELSE /\ mpc1.v_mpc = sol.v_ego[2]
            /\ mpc1.a_mpc = sol.a_ego[2]
            /\ mpc1.cur_state.v_ego = inp.seed.v
            /\ mpc1.cur_state.a_ego = inp.seed.a
            /\ mpc1.prev_lead_status = tracked

\* a solve that runs through the tracked lead without any NaN: the instance
\* is reset to the ego speed and drops the lead
C20_Witness ==
  /\ cycle >= 1
  /\ inp.lead_1.status
  /\ ~inp.ph1.status
  /\ inp.sol1 = SolCrash
  /\ mpc1.v_mpc = inp.CS.vEgo
  /\ mpc1.v_mpc # inp.sol1.v_ego[2]
  /\ mpc1.cur_state.v_ego # inp.seed.v
  /\ ~mpc1.prev_lead_status

\* C21: a lead reported outside phantom mode to an instance that ended the
\* cycle before with prev_lead_status true cold-starts the optimizer
\* (init_with_simulation once, new_lead true) exactly when its distance is
\* more than 2.5 m from the distance seeded in the cycle before; at 2.5 m or
\* less init_with_simulation is not called and new_lead is false.
C21_Jump_restarts ==
  (cycle >= 1 /\ mpc1.calls.lead /\ mpc1.calls.entry_prev_lead_status) =>
    IF Abs(inp.lead_1.dRel - mpc1.calls.entry_prev_lead_x) > 25000
    THEN mpc1.calls.init_with_simulation = 1 /\ mpc1.new_lead
    ELSE mpc1.calls.init_with_simulation = 0 /\ ~mpc1.new_lead

\* the lead moved by exactly 2.5 m and the warm start is kept
C21_Witness ==
  /\ cycle = 2
  /\ mpc1.calls.lead
  /\ mpc1.calls.entry_prev_lead_status
  /\ Abs(inp.lead_1.dRel - mpc1.calls.entry_prev_lead_x) = 25000
  /\ mpc1.calls.init_with_simulation = 0
  /\ ~mpc1.new_lead
  /\ mpc1.prev_lead_x = inp.lead_1.dRel

\* C22: in an engaged cycle an MPC instance whose prev_lead_status is false
\* after its update is not the published longitudinalPlanSource, and vTarget
\* is the cruise velocity or the velocity of an instance that does track a
\* lead, whatever the solver of the other one returned.
C22_No_lead_no_say ==
  (cycle >= 1 /\ ~pl.aborted /\ engaged(inp)) =>
    /\ ~mpc1.prev_lead_status => plan.msg.longitudinalPlanSource # "mpc1"
    /\ ~mpc2.prev_lead_status => plan.msg.longitudinalPlanSource # "mpc2"
    /\ plan.msg.vTarget \in {plan.msg.vCruise}
                            \cup {mpc1.v_mpc : b \in {TRUE} \cap {mpc1.prev_lead_status}}
                            \cup {mpc2.v_mpc : b \in {TRUE} \cap {mpc2.prev_lead_status}}

\* neither instance tracks a lead, MPC 2's solver returned a velocity below
\* the cruise velocity, and the plan is the cruise solution
C22_Witness ==
  /\ cycle >= 1
  /\ engaged(inp)
  /\ ~mpc1.prev_lead_status
  /\ ~mpc2.prev_lead_status
  /\ mpc2.calls.run_state.x_l = 500000
  /\ mpc2.v_mpc < plan.msg.vCruise
  /\ plan.msg.longitudinalPlanSource = "cruise"
  /\ plan.msg.vTarget = plan.msg.vCruise

\* C23 as stated: in every engaged cycle the acceleration limits handed to the
\* speed smoother satisfy a_min <= a_max.
C23_Original ==
  (cycle >= 1 /\ ~pl.aborted /\ engaged(inp)) =>
    pl.smoother[1].a_min <= pl.smoother[1].a_max

C25_Fused_setpoint ==
  (cycle >= 1 /\ ~pl.aborted) =>
    LET driver == (inp.vCruise * 100000) \div 36
        lim == limits_of(cfg, inp)
        sources == {driver, lim.v_curvature, lim.v_speedlimit, lim.v_speedlimit_ahead}
    IN /\ pl.v_cruise_setpoint \in sources
       /\ \A v \in sources : pl.v_cruise_setpoint <= v
       /\ ~inp.map.curvatureValid => lim.v_curvature = NO_CURVATURE_SPEED
       /\ ~inp.map.speedLimitValid => lim.v_speedlimit = NO_CURVATURE_SPEED
       /\ ~inp.map.speedLimitAheadValid => lim.v_speedlimit_ahead = NO_CURVATURE_SPEED
       /\ ~cfg.LimitSetSpeed => pl.v_cruise_setpoint = driver
       /\ engaged(inp) => pl.smoother[1].v_target = pl.v_cruise_setpoint

\* an engaged cycle whose target is the curvature speed, below the driver's
\* setpoint and the valid speed limit, the ahead limit not being valid
C25_Witness ==
  /\ cycle >= 1
  /\ ~pl.aborted
  /\ engaged(inp)
  /\ cfg.LimitSetSpeed
  /\ inp.map.curvatureValid
  /\ inp.map.speedLimitValid
  /\ ~inp.map.speedLimitAheadValid
  /\ pl.smoother[1].v_target = plan.msg.vCurvature
  /\ plan.msg.vCurvature < inp.map.speedLimit
  /\ inp.map.speedLimit < (inp.vCruise * 100000) \div 36

\* C26: in an engaged cycle in which the ahead limit is below the current
\* limit, the ego speed is above the ahead limit and the plan source the cycle
\* found is 'cruise', the smoother's a_min and a_max and the published aStart
\* are all max(-3.0, min(0, (v_ahead^2 - v_ego^2) / (2 distance))); in every
\* other engaged cycle aStart is the recurrence acceleration the cycle found.
C26_Ahead_override ==
  (cycle >= 1 /\ ~pl.aborted /\ engaged(inp)) =>
    LET lim == limits_of(cfg, inp)
        v_ahead == lim.v_speedlimit_ahead
        v_ego == inp.CS.vEgo
        decel == Max2(-30000, Min2(0, MulDiv(v_ahead - v_ego, v_ahead + v_ego,
                                              2 * inp.map.speedLimitAheadDistance)))
    IN IF /\ v_ahead < lim.v_speedlimit
          /\ v_ego > v_ahead
          /\ pl.carried.longitudinalPlanSource = "cruise"
       THEN /\ pl.smoother[1].a_min = decel
            /\ pl.smoother[1].a_max = decel
            /\ plan.msg.aStart = decel
       ELSE plan.msg.aStart = pl.carried.a_acc_start

\* 100 m before a limit of 8.3 m/s at 20 m/s, the plan coming from cruise:
\* the limits and aStart are pinned to -1.65 m/s^2, not to the floor
C26_Witness ==
  /\ cycle >= 2
  /\ ~pl.aborted
  /\ engaged(inp)
  /\ cfg.LimitSetSpeed
  /\ inp.map.speedLimitAheadValid
  /\ inp.map.speedLimitAheadDistance = 1000000
  /\ inp.CS.vEgo = 200000
  /\ pl.carried.longitudinalPlanSource = "cruise"
  /\ plan.msg.aStart > -30000
  /\ plan.msg.aStart < -16000
  /\ plan.msg.aStart # pl.carried.a_acc_start
  /\ pl.smoother[1].a_max = plan.msg.aStart

\* C27 as stated: for every ego speed and drive mode the a_max of
\* calc_cruise_accel_limits with following true is no greater than the a_max
\* with following false, and a_min is the same for both.
C27_Original ==
  probe.done =>
    /\ probe.limits[TRUE][2] <= probe.limits[FALSE][2]
    /\ probe.limits[TRUE][1] = probe.limits[FALSE][1]

\* C27: a_min is one curve of the ego speed whatever the mode and following;
\* a_max with following true is the following curve whatever the mode. It is
\* no greater than the a_max without following in sport mode at every speed
\* and in default mode up to 16 m/s and from 55 m/s; it is greater in default
\* mode between 16 and 55 m/s and in eco mode at every speed.
C27_Amended ==
  probe.done =>
    LET v == inp.CS.vEgo
        g == inp.CS.gasbuttonstatus
        with == probe.limits[TRUE]
        without == probe.limits[FALSE]
    IN /\ with[1] = without[1]
       /\ with[1] = interp(v, A_CRUISE_MIN_BP, A_CRUISE_MIN_V)
       /\ with[2] = interp(v, A_CRUISE_MAX_BP, A_CRUISE_MAX_V_FOLLOWING)
       /\ g = 1 => with[2] <= without[2]
       /\ g = 2 => with[2] > without[2]
       /\ g = 0 => (with[2] <= without[2] <=> (v <= 160000 \/ v >= 550000))

\* eco mode at 20 m/s: 0.7 m/s^2 when following, 0.3 m/s^2 when not
C27_Witness ==
  /\ probe.done
  /\ inp.CS.gasbuttonstatus = 2
  /\ inp.CS.vEgo = 200000
  /\ probe.limits[TRUE] = <<-5000, 7000>>
  /\ probe.limits[FALSE] = <<-5000, 3000>>

\* C28: a cycle of an instance logs the anomaly warning only if its solve
\* started more than 5.0 s after the solve of the warning before it, whose
\* start last_cloudlog_t holds; every cycle whose trajectory is faulty performs
\* the hard reset, logged or not.
C28_Warning_spacing ==
  cycle >= 1 =>
    LET sol == inp.sol1
        faulty == \/ \E i \in 1..11 : IsNaN(sol.v_ego[i])
                  \/ /\ inp.ph1.status \/ inp.lead_1.status
                     /\ \E i \in 1..11 : \/ sol.x_l[i] - sol.x_ego[i] < -500000
                                         \/ ~IsNaN(sol.v_ego[i]) /\ sol.v_ego[i] < -100
    IN /\ mpc1.calls.warning \in {0, 1}
       /\ mpc1.calls.warning = 1 =>
            /\ inp.cur_time > mpc1.calls.entry_last_cloudlog_t + 50000
            /\ mpc1.last_cloudlog_t = inp.cur_time
            /\ faulty
       /\ mpc1.calls.warning = 0 => mpc1.last_cloudlog_t = mpc1.calls.entry_last_cloudlog_t
       /\ mpc1.calls.init = IF faulty THEN 1 ELSE 0

\* a second faulty cycle exactly 5.0 s after a logged one: reset, not logged
C28_Witness ==
  /\ cycle = 2
  /\ mpc1.calls.entry_last_cloudlog_t > 0
  /\ inp.cur_time = mpc1.calls.entry_last_cloudlog_t + 50000
  /\ mpc1.calls.init = 1
  /\ mpc1.calls.warning = 0
  /\ ~mpc1.prev_lead_status
  /\ mpc1.v_mpc = inp.CS.vEgo

\* C29 as stated: every cycle advances the recurrence state once from the
\* published plan, a' = aStart + (0.05/0.2)(aTarget - aStart) and
\* v' = vStart + 0.05 (a' + aStart)/2, and the aStart of the next cycle lies
\* between the aStart and the aTarget of this one.
C29_Original ==
  (cycle >= 2 /\ ~pl.aborted) =>
    /\ pl.a_acc_start = FAdd(plan.msg.aStart,
                             FScale(FSub(plan.msg.aTarget, plan.msg.aStart), 1, 4))
    /\ pl.v_acc_start = FAdd(plan.msg.vStart,
                             FScale(FAdd(pl.a_acc_start, plan.msg.aStart), 25, 1000))
    /\ Min2(pl.carried.aStart, pl.carried.aTarget) <= plan.msg.aStart
    /\ plan.msg.aStart <= Max2(pl.carried.aStart, pl.carried.aTarget)

\* C29: every cycle that publishes advances the recurrence state once from
\* the published plan, a' = aStart + (0.05/0.2)(aTarget - aStart) and
\* v' = vStart + 0.05 (a' + aStart)/2, so a' lies between aStart and aTarget.
\* The next cycle publishes a' as its aStart if it is engaged and the
\* ahead-limit override does not apply; a cycle that is not engaged publishes
\* its reset acceleration instead.
C29_Amended ==
  (cycle >= 1 /\ ~pl.aborted) =>
    LET lim == limits_of(cfg, inp)
        override == /\ lim.v_speedlimit_ahead < lim.v_speedlimit
                    /\ inp.CS.vEgo > lim.v_speedlimit_ahead
                    /\ pl.carried.longitudinalPlanSource = "cruise"
    IN /\ pl.a_acc_start = FAdd(plan.msg.aStart,
                                FScale(FSub(plan.msg.aTarget, plan.msg.aStart), 1, 4))
       /\ pl.v_acc_start = FAdd(plan.msg.vStart,
                                FScale(FAdd(pl.a_acc_start, plan.msg.aStart), 25, 1000))
       /\ ~IsNaN(plan.msg.aTarget) =>
            /\ Min2(plan.msg.aStart, plan.msg.aTarget) <= pl.a_acc_start
            /\ pl.a_acc_start <= Max2(plan.msg.aStart, plan.msg.aTarget)
       /\ (engaged(inp) /\ ~override) => plan.msg.aStart = pl.carried.a_acc_start
       /\ ~engaged(inp) =>
            plan.msg.aStart = IF inp.longControlState = "starting" THEN cfg.CP.startAccel
                              ELSE Min2(inp.CS.aEgo, 0)

\* two engaged cycles: the second publishes the first one's a' as its aStart
\* and moves it a quarter of the way to its own aTarget
C29_Witness ==
  /\ cycle = 2
  /\ engaged(inp)
  /\ inp.prev.longControlState = "pid"
  /\ plan.msg.aStart = pl.carried.a_acc_start
  /\ plan.msg.aStart # pl.carried.aStart
  /\ plan.msg.aTarget < plan.msg.aStart
  /\ pl.a_acc_start < plan.msg.aStart
  /\ plan.msg.aTarget < pl.a_acc_start

\* C30: at an ego speed of 6.7056 m/s or less, the time gap dynamic_follow
\* returns is the same whatever the lead (present or not, its speed, its
\* acceleration) and whatever the turn signals: the call the cycle made and
\* every call that differs from it in those fields only return the same TR.
C30_Low_speed_TR ==
  (/\ cycle = 1
   /\ mpc1.calls.lead
   /\ mpc1.customTR = <<>>
   /\ mpc1.v_ego <= 67056) =>
    /\ mpc1.TR = dynamic_follow(mpc1)
    /\ \A present \in BOOLEAN, left, right \in BOOLEAN :
       \A rel \in {-160000, -50000, -6100, 0, 30000} :
       \A a \in {-25000, -5000, 0, 20000} :
         dynamic_follow([mpc1 EXCEPT
                           !.lead_data = [present |-> present, v_lead |-> mpc1.v_ego + rel,
                                          x_lead |-> mpc1.lead_data.x_lead, a_lead |-> a],
                           !.car_state = [leftBlinker |-> left, rightBlinker |-> right]])
           = mpc1.TR

\* a call on the low-speed ramp, 5.5 m/s, behind a lead 5 m/s slower that
\* brakes at 0.5 m/s2, turn signal on: the time gap is the ramp's value
C30_Witness ==
  /\ cycle = 1
  /\ mpc1.calls.lead
  /\ mpc1.customTR = <<>>
  /\ mpc1.v_ego = 55000
  /\ mpc1.lead_data.present
  /\ mpc1.lead_data.v_lead = 5000
  /\ mpc1.lead_data.a_lead = -5000
  /\ mpc1.car_state.leftBlinker
  /\ mpc1.TR = Round3(interp(55000, <<44704, 67056>>, <<180000, 156454>>))
  /\ mpc1.TR > 1565
  /\ mpc1.TR < 1800

\* C31 as stated: after any sequence of save_car_data calls the short buffer
\* holds at most rate * 3 = 60 samples and the traffic buffer at most 180, the
\* oldest sample going first, and a call without a lead leaves the short
\* buffer empty.
C31_Original ==
  /\ Len(mpc1.car_data.lead_vels) <= rate * 3
  /\ Len(mpc1.car_data.traffic_vels) <= 180
  /\ \A i \in 1..Len(mpc1.car_data.lead_vels) :
       mpc1.car_data.lead_vels[i] = cycle - Len(mpc1.car_data.lead_vels) + i
  /\ ~mpc1.lead_data.present => mpc1.car_data.lead_vels = <<>>

\* C32 as stated: at the end of every MPC update new_lead is true exactly if
\* init_with_simulation was called during that update, and it is false after
\* every update in which no lead was reported.
C32_Original ==
  cycle >= 1 =>
    /\ mpc1.new_lead <=> mpc1.calls.init_with_simulation >= 1
    /\ (~mpc1.calls.lead /\ ~mpc1.calls.phantom) => ~mpc1.new_lead

\* C33 as stated: every published plan has a finite vTarget, aTarget and
\* vTargetFuture when the ego, lead and map inputs are finite, also in a cycle
\* in which a solver returned NaN and its instance was hard-reset.
C33_Original ==
  (cycle >= 1 /\ ~pl.aborted) =>
    /\ ~IsNaN(plan.msg.vTarget)
    /\ ~IsNaN(plan.msg.aTarget)
    /\ ~IsNaN(plan.msg.vTargetFuture)

\* C34 as stated: with valid curvature the ceiling v_curvature never falls as
\* the curve radius grows, over the whole range of radii and across the band
\* boundaries at 250 m and 500 m.
C34_Original ==
  probe.done =>
    \A k \in Curvatures :
      Abs(k) <= Abs(inp.map.curvature) =>
        probe.v_curvature[k] >= probe.v_curvature[inp.map.curvature]

\* C35 as stated: with a non-negative ego speed in every cycle, the
\* recurrence velocity carried between cycles and published as vStart is
\* never negative.
C35_Original ==
  (cycle >= 1 /\ ~pl.aborted) =>
    /\ plan.msg.vStart >= 0
    /\ pl.v_acc_start >= 0

\* C36: an update that finds a lead (or a phantom lead) in the cycle after a
\* hard reset of the instance starts the optimizer cold, init_with_simulation
\* once and new_lead true, whatever the change in lead distance; a fault in
\* consecutive lead cycles therefore gives a cold start in each of them.
C36_Cold_start_after_reset ==
  (/\ cycle >= 2
   /\ mpc1.calls.entry_reset
   /\ (mpc1.calls.lead \/ mpc1.calls.phantom)) =>
    /\ ~mpc1.calls.entry_prev_lead_status
    /\ mpc1.calls.init_with_simulation = 1
    /\ mpc1.new_lead

\* two cycles with the same lead at 40 m and a faulty trajectory in both: the
\* second starts cold although the distance did not change, and resets again
C36_Witness ==
  /\ cycle = 2
  /\ mpc1.calls.entry_reset
  /\ mpc1.calls.lead
  /\ ~mpc1.calls.phantom
  /\ mpc1.lead_data.x_lead = 400000
  /\ mpc1.calls.entry_prev_lead_x = 400000
  /\ mpc1.calls.init_with_simulation = 1
  /\ mpc1.new_lead
  /\ mpc1.calls.init = 1

\* C37: a cycle in which the controller is not engaged publishes the
\* longitudinalPlanSource it found, the one chosen by the most recent engaged
\* cycle ('cruise' before the first); an engaged cycle applies the
\* ahead-limit override only if the source it found is 'cruise', also in the
\* first cycle after re-engagement.
C37_Source_carried ==
  (cycle >= 1 /\ ~pl.aborted) =>
    LET lim == limits_of(cfg, inp)
        lower_ahead == /\ lim.v_speedlimit_ahead < lim.v_speedlimit
                       /\ inp.CS.vEgo > lim.v_speedlimit_ahead
    IN /\ plan.msg.longitudinalPlanSource = pl.longitudinalPlanSource
       /\ ~engaged(inp) =>
            plan.msg.longitudinalPlanSource = pl.carried.longitudinalPlanSource
       /\ (cycle = 1 /\ ~engaged(inp)) => plan.msg.longitudinalPlanSource = "cruise"
       /\ (engaged(inp) /\ lower_ahead) =>
            IF pl.carried.longitudinalPlanSource = "cruise"
            THEN /\ pl.smoother[1].a_min = pl.smoother[1].a_max
                 /\ plan.msg.aStart = pl.smoother[1].a_min
            ELSE /\ pl.smoother[1].a_min < pl.smoother[1].a_max
                 /\ plan.msg.aStart = pl.carried.a_acc_start

\* engaged behind a lead (source mpc1), then not engaged, then engaged again
\* before a lower limit: the third cycle finds mpc1 and does not override
C37_Witness ==
  /\ cycle = 3
  /\ ~pl.aborted
  /\ engaged(inp)
  /\ inp.prev.longControlState = "off"
  /\ pl.carried.longitudinalPlanSource = "mpc1"
  /\ cfg.LimitSetSpeed
  /\ inp.map.speedLimitAheadValid
  /\ limits_of(cfg, inp).v_speedlimit_ahead < inp.CS.vEgo
  /\ pl.smoother[1].a_min < pl.smoother[1].a_max
  /\ plan.msg.aStart = pl.carried.a_acc_start

====
